---- MODULE Spec2Model ----
(***************************************************************************)
(* Verification model of the baby keyboard smashing game engine:           *)
(*   - ObjectPool, ShapeManager and ParticleSystem (entity managers),      *)
(*   - the frame driver of BabyKeyboardGame (start/exit/pause/gameLoop),   *)
(*   - SoundManager (concurrency cap of synthesized sounds).               *)
(*                                                                         *)
(* Times are integers in milliseconds.  Velocities, gravity and friction   *)
(* are fixed-point integers in hundredths; positions are whole pixels.     *)
(* Every call of Math.random() is an input drawn from a small set; all     *)
(* particles spawned by one call share one draw.                           *)
(*                                                                         *)
(* Three specifications share the variables:                               *)
(*   SpecManagers  the public operations of the two entity managers        *)
(*   SpecDriver    the event handlers and frame callback of the game       *)
(*   SpecSound     playSound, mute and the audio clock                     *)
(***************************************************************************)
EXTENDS Integers, Sequences, FiniteSets, TLC

(***************************************************************************)
(* Program constants                                                       *)
(***************************************************************************)
MaxActiveShapes == 15
MaxActiveParticles == 100
AnimationDuration == 3000
MaxConcurrentSounds == 5
ShapePoolInitialSize == 10
ParticlePoolInitialSize == 50
ConstantEmitRate == 120
MaxClickParticles == 20
OffscreenBuffer == 100
SlotReleaseDelay == 100
FadeOutDuration == 1500
ShapeMinSize == 40
ShapeMaxSize == 120
DefaultPadding == 50

(***************************************************************************)
(* Bounds of the model                                                     *)
(***************************************************************************)
\* the clock stops advancing once it has reached MaxTime
MaxTime == 3000
\* clear() calls in one behaviour
MaxClears == 2
\* spawn calls on the particle system in one behaviour
MaxSpawnCalls == 3
\* playWelcomeSound/playSuccessSound calls in one behaviour
MaxMelodyCalls == 1
\* key presses come in runs: update and clear are called on the shape manager
\* when the number of live shapes is a multiple of RunLength or at capacity
RunLength == 8
\* only the first SpecialPrefix shapes of a live collection are given an
\* effect tag other than normal
SpecialPrefix == 1
\* canvas size in pixels
CanvasWidth == 800
CanvasHeight == 600
\* time between two frames delivered by requestAnimationFrame
FrameInterval == 500
\* length of a gap during which the tab is in the background, and time between
\* two rounds of playSound calls
LongGap == 1500
\* the clock stops once the shapes born in the first two frame intervals are
\* gone
MaxPlayTime == ((AnimationDuration * 13) \div 10) + 2 * FrameInterval

\* shapes live at once when update is probed around the lifespans
MaxProbeShapes == 2
\* keydown events delivered in one behaviour
MaxKeyDowns == 3
\* keydown events are delivered in the first KeyWindow milliseconds
KeyWindow == 1000
\* longest time between the clock read of Shape.update and that of
\* Shape.render in one frame (the particles are updated and drawn in between)
MaxRenderLag == 2
\* the clock stops at PointerWindow while the pointer is followed
PointerWindow == 240
\* playSound is called in the first PlayWindow milliseconds when the release
\* of the active-sound slots is followed to its end
PlayWindow == 700

\* frame times handed directly to the managers' update(deltaTime)
DtChoices == {LongGap, MaxTime}
\* sound types handed to playSound
SoundTypeChoices == {"note", "chime"}
\* the synthesis calls of the audio backend succeed, or the first of them in
\* every create...Sound throws
SynthChoices == {"ok", "throws"}
\* effect tags of the key presses handed to createShape
EffectChoices == {"normal", "explosion"}
\* effect tags handed to Shape.init (the tags analyzeKey produces that
\* initEffect distinguishes, and two it does not)
EffectTags == {"normal", "explosion", "fireworks", "sparkle", "rainbow", "star",
               "bounce"}
\* positions of pointer presses and direct spawns (inside and outside the canvas)
PointChoices == {[x |-> 400, y |-> 300]}
\* positions of the spawns requested inside, beside, below and far outside the
\* canvas
SpawnPoints ==
    {[x |-> CanvasWidth \div 2, y |-> CanvasHeight \div 2],
     [x |-> 0 - 40, y |-> CanvasHeight \div 2],
     [x |-> CanvasWidth \div 2, y |-> CanvasHeight + 40],
     [x |-> CanvasWidth + 200, y |-> 0 - 200]}
\* mouse button of a click
ButtonChoices == {2}
\* particle counts handed to createBurst (main.js passes 15 and 10)
BurstCounts == {15}
\* one outcome of the Math.random() calls of a spawn: every random range at
\* its lower ("low") or at its upper ("high") end
DrawChoices == {"low", "high"}

(***************************************************************************)
(* State                                                                   *)
(***************************************************************************)
VARIABLES
    now,                  \* performance.now() and the audio clock
    focus,                \* the part of the program a behaviour exercises
    \* ShapeManager
    shapes,               \* this.shapes: the live Shape instances, oldest first
    shapePool,            \* this.shapePool
    \* ParticleSystem
    particles,            \* this.particles: the live Particle instances
    particlePool,         \* this.particlePool
    lastConstantEmitTime, \* this.lastConstantEmitTime
    mouseX, mouseY,       \* this.mouseX, this.mouseY
    \* history of the manager operations
    lastOp,               \* the last operation and what it acquired and released
    spawnCalls,           \* number of spawn calls made on the particle system
    clearCalls,           \* number of clear() calls made
    \* BabyKeyboardGame: the frame driver
    isInitialized,        \* this.isInitialized
    isRunning,            \* this.isRunning
    isPaused,             \* this.isPaused
    animationId,          \* this.animationId (0 for null)
    lastFrameTime,        \* this.lastFrameTime
    controlsHidden,       \* parentControls.classList.contains('hidden')
    docHidden,            \* document.hidden
    pending,              \* handles of the frame callbacks requested and not yet run
    due,                  \* the pending callbacks whose frame has come
    \* history of the frame driver
    lastTick,             \* what the last frame callback did
    updateCalls,          \* number of update(deltaTime)/render() calls made
    pausedSinceTick,      \* isPaused was set since the last update
    tickedSinceStart,     \* update was called since the last start or stop
    stoppedAt,            \* time of the last exitGame/destroy, -1 when none since start
    \* SoundManager
    isEnabled,            \* this.isEnabled
    useWebAudio,          \* this.useWebAudio
    soundInitPending,     \* init() has not yet settled
    synthesis,            \* whether the synthesis calls of the audio backend throw
    activeSounds,         \* this.activeSounds
    timers,               \* the setTimeout clean-ups not yet run
    signals,              \* the synthesized sounds started and not yet stopped
    lastPlay,             \* what the last playSound call did
    noteTimers,           \* the setTimeout callbacks of playMelody/playChord not yet run
    melodyCalls,          \* number of playMelody/playChord calls made
    \* KeyboardHandler
    gameActive,           \* this.gameActive
    lastKeyTime,          \* this.lastKeyTime
    keyPressCount,        \* this.keyPressCount
    \* history of the key presses and of the rendered frames
    lastKey,              \* what the last keydown event did
    keyCalls,             \* number of keydown events delivered
    lastFrame,            \* what the last update(deltaTime)/render() expired and drew
    lastCall,             \* the last two calls of a table function and their results
    \* events the browser has yet to deliver
    menuDue               \* a right-button press whose contextmenu event is to come

shapeVars == <<shapes, shapePool>>
particleVars == <<particles, particlePool, lastConstantEmitTime, mouseX, mouseY>>
historyVars == <<lastOp, spawnCalls, clearCalls>>

driverVars == <<isInitialized, isRunning, isPaused, animationId, lastFrameTime,
                controlsHidden, docHidden, pending, due>>
driverHistoryVars == <<lastTick, updateCalls, pausedSinceTick, tickedSinceStart,
                       stoppedAt>>
soundVars == <<isEnabled, useWebAudio, soundInitPending, synthesis, activeSounds, timers,
               signals, lastPlay, noteTimers, melodyCalls>>

keyVars == <<gameActive, lastKeyTime, keyPressCount>>
playHistoryVars == <<lastKey, keyCalls, lastFrame, lastCall, menuDue>>

vars == <<now, focus, shapeVars, particleVars, historyVars, driverVars,
          driverHistoryVars, soundVars, keyVars, playHistoryVars>>

(***************************************************************************)
(* Helpers                                                                 *)
(***************************************************************************)
Min(a, b) == IF a < b THEN a ELSE b
Max(a, b) == IF a > b THEN a ELSE b

Ids(s) == [i \in 1..Len(s) |-> s[i].id]

\* Math.max(lo, Math.min(v, hi))
Clamp(v, lo, hi) == Max(lo, Min(v, hi))

(***************************************************************************)
(* ObjectPool.  A pool is the record [free, instances, outstanding]: the   *)
(* free-list this.pool (instance ids, last element on top), the number of  *)
(* instances createFn has constructed, and the number of get() calls minus *)
(* the number of release() calls made on it.                               *)
(***************************************************************************)
\* constructor: the pool is pre-populated with the instances 1..initialSize
PoolInit(initialSize) ==
    [free |-> [i \in 1..initialSize |-> i], instances |-> initialSize,
     outstanding |-> 0]

\* get(): the instance returned, popped from the free-list or constructed
PoolGetObj(pool) ==
    IF Len(pool.free) > 0 THEN pool.free[Len(pool.free)] ELSE pool.instances + 1

\* get() constructing an instance at every call and leaving the free-list alone
PoolGet_AlwaysConstructs(pool) ==
    [pool EXCEPT !.instances = pool.instances + 1,
                 !.outstanding = pool.outstanding + 1]

\* get(): the pool afterwards
PoolGet(pool) ==
    IF Len(pool.free) > 0
    THEN [pool EXCEPT !.free = SubSeq(pool.free, 1, Len(pool.free) - 1),
                      !.outstanding = pool.outstanding + 1]
    ELSE [pool EXCEPT !.instances = pool.instances + 1,
                      !.outstanding = pool.outstanding + 1]

\* release(obj): resetFn(obj), then push obj onto the free-list.  The fields of
\* an instance in the free-list are those of reset() and are not stored.
PoolRelease(pool, obj) ==
    [pool EXCEPT !.free = Append(pool.free, obj),
                 !.outstanding = pool.outstanding - 1]

\* release(obj) called for each instance of the sequence objs, in order: every
\* call pushes one instance and counts one release
PoolReleaseAll(pool, objs) ==
    [pool EXCEPT !.free = pool.free \o objs,
                 !.outstanding = pool.outstanding - Len(objs)]

(***************************************************************************)
(* Shape                                                                   *)
(***************************************************************************)
\* initEffect: lifespan by effect tag
ShapeLifespan(effect) ==
    CASE effect = "explosion" -> (AnimationDuration * 15) \div 10
      [] effect = "fireworks" -> AnimationDuration * 2
      [] effect = "sparkle"   -> (AnimationDuration * 12) \div 10
      [] effect = "rainbow"   -> (AnimationDuration * 13) \div 10
      [] OTHER                -> AnimationDuration

\* init(x, y, type, color, effect) of the instance obj at time t
ShapeInit(obj, effect, t) ==
    [id |-> obj, effect |-> effect, createdAt |-> t,
     lifespan |-> ShapeLifespan(effect), isActive |-> TRUE]

\* fadeOutStart computed as if the fade lasted the whole base duration
ShapeFadeOutStart_WholeDuration(s) == s.lifespan - AnimationDuration

\* initEffect: fadeOutStart
ShapeFadeOutStart(s) == s.lifespan - FadeOutDuration

\* update at time t: the growing phase (age < lifespan * 0.3)
ShapeGrowing(s, t) == 10 * (t - s.createdAt) < 3 * s.lifespan

\* render at time t: the fade-out (age > fadeOutStart)
ShapeFadingOut(s, t) == (t - s.createdAt) > ShapeFadeOutStart(s)

\* initEffect and updateEffect: the effect whose update displaces the vertical
\* position by bounceHeight * sin(age * bounceSpeed) / 100
ShapeBounces(s) == s.effect = "star"

\* variant of update in which a shape is still alive at age = lifespan
ShapeUpdateAlive_AtLifespan(s, t) == s.isActive /\ (t - s.createdAt) <= s.lifespan

\* update(deltaTime) at time t: the return value (progress < 1 and active)
ShapeUpdateAlive(s, t) == s.isActive /\ (t - s.createdAt) < s.lifespan

\* update(deltaTime) at time t: the instance afterwards
ShapeUpdate(s, t) == [s EXCEPT !.isActive = ShapeUpdateAlive(s, t)]

(***************************************************************************)
(* Shape placement and size.  A Math.random() outcome rnd is in            *)
(* thousandths (0..999).                                                   *)
(***************************************************************************)
\* randomBetween(min, max) = Math.random() * (max - min) + min
RandomBetween(lo, hi, rnd) == lo + ((hi - lo) * rnd) \div 1000

\* getRandomPosition(canvasWidth, canvasHeight, padding)
GetRandomPosition(width, height, padding, rx, ry) ==
    [x |-> RandomBetween(padding, width - padding, rx),
     y |-> RandomBetween(padding, height - padding, ry)]

\* Shape.init and initEffect: maxSize after the scaling of the effect
ShapeMaxSizeFor(effect, rs) ==
    LET base == RandomBetween(ShapeMinSize, ShapeMaxSize, rs)
    IN  CASE effect = "explosion" -> (base * 15) \div 10
          [] effect = "fireworks" -> (base * 8) \div 10
          [] effect = "rainbow"   -> (base * 12) \div 10
          [] OTHER                -> base

\* createShape calling getRandomPosition without its third argument
CreateShapePadding_Default == DefaultPadding

\* createShape: the padding handed to getRandomPosition
CreateShapePadding == ShapeMaxSize

\* createShape(keyInfo) on a canvas whose bounding rectangle is rect: the
\* position and the largest size of the new shape
CreateShapePlacement(rect, effect, rx, ry, rs) ==
    LET position == GetRandomPosition(rect.width, rect.height, CreateShapePadding,
                                      rx, ry)
    IN  [x |-> position.x, y |-> position.y, maxSize |-> ShapeMaxSizeFor(effect, rs)]

(***************************************************************************)
(* ShapeManager.  A manager state sm is the record                         *)
(*   [shapes, pool, acquired, released]                                    *)
(* where acquired/released list the instances an operation took from and   *)
(* gave back to the pool, in call order.                                   *)
(***************************************************************************)
ShapeManagerInit ==
    [shapes |-> <<>>, pool |-> PoolInit(ShapePoolInitialSize),
     acquired |-> <<>>, released |-> <<>>]

\* createShape(keyInfo) at time t, keyInfo.effect = effect
ShapeManagerCreateShape(sm, effect, t) ==
    LET obj == PoolGetObj(sm.pool)
        pushed == Append(sm.shapes, ShapeInit(obj, effect, t))
    IN  IF Len(pushed) > MaxActiveShapes
        THEN [shapes |-> Tail(pushed),
              pool |-> PoolRelease(PoolGet(sm.pool), Head(pushed).id),
              acquired |-> Append(sm.acquired, obj),
              released |-> Append(sm.released, Head(pushed).id)]
        ELSE [shapes |-> pushed,
              pool |-> PoolGet(sm.pool),
              acquired |-> Append(sm.acquired, obj),
              released |-> sm.released]

\* update(deltaTime) at time t
ShapeManagerUpdate(sm, t) ==
    LET expired == SelectSeq(sm.shapes, LAMBDA s : ~ShapeUpdateAlive(s, t))
        kept == SelectSeq(sm.shapes, LAMBDA s : ShapeUpdateAlive(s, t))
    IN  [sm EXCEPT !.shapes = [i \in 1..Len(kept) |-> ShapeUpdate(kept[i], t)],
                   !.pool = PoolReleaseAll(sm.pool, Ids(expired)),
                   !.released = sm.released \o Ids(expired)]

\* clear()
ShapeManagerClear(sm) ==
    [sm EXCEPT !.shapes = <<>>,
               !.pool = PoolReleaseAll(sm.pool, Ids(sm.shapes)),
               !.released = sm.released \o Ids(sm.shapes)]

(***************************************************************************)
(* Particle                                                                *)
(***************************************************************************)
\* randomBetween(lo, hi) under a draw
Pick(draw, lo, hi) == IF draw = "low" THEN lo ELSE hi

\* init(x, y, options) of the instance obj.  isClick is options.isClickParticle,
\* intensity10 is ten times options.burstIntensity.  A click particle leaves at
\* angle 0 (draw "low") or a quarter turn (draw "high").
ParticleInit(obj, x, y, isClick, intensity10, draw) ==
    LET maxLife == IF isClick THEN Pick(draw, 2000, 6000) ELSE Pick(draw, 1000, 4000)
        speed == (Pick(draw, 300, 1000) * intensity10) \div 10
    IN  [id |-> obj, x |-> x, y |-> y,
         vx |-> IF isClick THEN Pick(draw, speed, 0) ELSE Pick(draw, 0 - 100, 100),
         vy |-> IF isClick THEN Pick(draw, 0, speed) ELSE Pick(draw, 0 - 200, 50),
         gravity |-> IF isClick THEN Pick(draw, 2, 8) ELSE Pick(draw, 5, 15),
         friction |-> Pick(draw, 95, 99),
         life |-> maxLife, maxLife |-> maxLife, isActive |-> TRUE]

\* the size computed by update is 0 exactly when lifeProgress is 0 (growing
\* phase, easeOut(0) = 0) or 1 (shrinking phase, 1 - easeOut(1) = 0)
ParticleSizeIsZero(life, maxLife) == life >= maxLife \/ life <= 0

\* update(deltaTime): the physics step and the life decay
ParticleStep(p, dt) ==
    [p EXCEPT !.x = p.x + (p.vx * dt * 6) \div 10000,
              !.y = p.y + (p.vy * dt * 6) \div 10000,
              !.vx = (p.vx * p.friction) \div 100,
              !.vy = ((p.vy + (p.gravity * dt * 6) \div 100) * p.friction) \div 100,
              !.life = p.life - dt]

\* update(deltaTime): the instance afterwards; its isActive is the return value
ParticleUpdate(p, dt) ==
    IF ~p.isActive THEN p
    ELSE LET q == ParticleStep(p, dt)
         IN  [q EXCEPT !.isActive =
                  ~(q.life <= 0 \/ ParticleSizeIsZero(q.life, q.maxLife))]

\* the off-screen test with three times the buffer
ParticleOffscreen_WideBuffer(p) ==
    \/ p.x < 0 - 3 * OffscreenBuffer
    \/ p.x > CanvasWidth + 3 * OffscreenBuffer
    \/ p.y < 0 - 3 * OffscreenBuffer
    \/ p.y > CanvasHeight + 3 * OffscreenBuffer

\* the off-screen test of ParticleSystem.update
ParticleOffscreen(p) ==
    \/ p.x < 0 - OffscreenBuffer
    \/ p.x > CanvasWidth + OffscreenBuffer
    \/ p.y < 0 - OffscreenBuffer
    \/ p.y > CanvasHeight + OffscreenBuffer

(***************************************************************************)
(* ParticleSystem.  A system state ps is the record                        *)
(*   [particles, pool, lastEmit, mouseX, mouseY, acquired, released]       *)
(***************************************************************************)
ParticleSystemInit ==
    [particles |-> <<>>, pool |-> PoolInit(ParticlePoolInitialSize),
     lastEmit |-> 0, mouseX |-> CanvasWidth \div 2, mouseY |-> CanvasHeight \div 2,
     acquired |-> <<>>, released |-> <<>>]

\* createParticle testing the population after the push instead of before it
ParticleSystemCreateParticle_CapTestedLate(ps, x, y, isClick, intensity10, draw) ==
    LET atCap == Len(ps.particles) > MaxActiveParticles
        evicted == IF atCap THEN <<Head(ps.particles).id>> ELSE <<>>
        rest == IF atCap THEN Tail(ps.particles) ELSE ps.particles
        pool == PoolReleaseAll(ps.pool, evicted)
        obj == PoolGetObj(pool)
    IN  [ps EXCEPT !.particles = Append(rest, ParticleInit(obj, x, y, isClick, intensity10, draw)),
                   !.pool = PoolGet(pool),
                   !.acquired = Append(ps.acquired, obj),
                   !.released = ps.released \o evicted]

\* createParticle evicting with pop() (the newest particle) instead of shift()
ParticleSystemCreateParticle_EvictsNewest(ps, x, y, isClick, intensity10, draw) ==
    LET atCap == Len(ps.particles) >= MaxActiveParticles
        evicted == IF atCap THEN <<ps.particles[Len(ps.particles)].id>> ELSE <<>>
        rest == IF atCap THEN SubSeq(ps.particles, 1, Len(ps.particles) - 1)
                ELSE ps.particles
        pool == PoolReleaseAll(ps.pool, evicted)
        obj == PoolGetObj(pool)
    IN  [ps EXCEPT !.particles = Append(rest, ParticleInit(obj, x, y, isClick, intensity10, draw)),
                   !.pool = PoolGet(pool),
                   !.acquired = Append(ps.acquired, obj),
                   !.released = ps.released \o evicted]

\* createParticle(x, y, options)
ParticleSystemCreateParticle(ps, x, y, isClick, intensity10, draw) ==
    LET atCap == Len(ps.particles) >= MaxActiveParticles
        evicted == IF atCap THEN <<Head(ps.particles).id>> ELSE <<>>
        rest == IF atCap THEN Tail(ps.particles) ELSE ps.particles
        pool == PoolReleaseAll(ps.pool, evicted)
        obj == PoolGetObj(pool)
    IN  [ps EXCEPT !.particles = Append(rest, ParticleInit(obj, x, y, isClick, intensity10, draw)),
                   !.pool = PoolGet(pool),
                   !.acquired = Append(ps.acquired, obj),
                   !.released = ps.released \o evicted]

\* n consecutive calls of createParticle with the same arguments
RECURSIVE ParticleSystemCreateParticles(_, _, _, _, _, _, _)
ParticleSystemCreateParticles(ps, n, x, y, isClick, intensity10, draw) ==
    IF n = 0 THEN ps
    ELSE ParticleSystemCreateParticles(
             ParticleSystemCreateParticle(ps, x, y, isClick, intensity10, draw),
             n - 1, x, y, isClick, intensity10, draw)

\* createClickEffect: ten times effectIntensity by mouse button
EffectIntensity10(button) ==
    CASE button = 0 -> 15
      [] button = 1 -> 20
      [] button = 2 -> 25
      [] OTHER      -> 10

\* createClickEffect(x, y, button)
ParticleSystemCreateClickEffect(ps, x, y, button, draw) ==
    ParticleSystemCreateParticles(ps,
        (MaxClickParticles * EffectIntensity10(button)) \div 10,
        x, y, TRUE, EffectIntensity10(button), draw)

\* createBurst: the velocity of particle i of count, angle (i / count) * 2 pi
\* rounded down to a quarter turn, speed randomBetween(3, 8)
BurstVelocity(i, count, draw) ==
    LET q == (4 * i) \div count
        speed == Pick(draw, 300, 800)
    IN  CASE q = 0 -> [vx |-> speed, vy |-> 0]
          [] q = 1 -> [vx |-> 0, vy |-> speed]
          [] q = 2 -> [vx |-> 0 - speed, vy |-> 0]
          [] OTHER -> [vx |-> 0, vy |-> 0 - speed]

\* createBurst(x, y, count): the loop from index i on
RECURSIVE ParticleSystemBurstFrom(_, _, _, _, _, _)
ParticleSystemBurstFrom(ps, i, x, y, count, draw) ==
    IF i >= count \/ Len(ps.particles) >= MaxActiveParticles THEN ps
    ELSE LET obj == PoolGetObj(ps.pool)
             p == ParticleInit(obj, x, y, FALSE, 10, draw)
             v == BurstVelocity(i, count, draw)
         IN  ParticleSystemBurstFrom(
                 [ps EXCEPT !.particles = Append(ps.particles,
                                              [p EXCEPT !.vx = v.vx, !.vy = v.vy]),
                            !.pool = PoolGet(ps.pool),
                            !.acquired = Append(ps.acquired, obj)],
                 i + 1, x, y, count, draw)

\* createBurst making its particles with createParticle, which evicts the
\* oldest particle at capacity
ParticleSystemCreateBurst_Evicts(ps, x, y, count, draw) ==
    ParticleSystemCreateParticles(ps, count, x, y, FALSE, 10, draw)

\* createBurst(x, y, count)
ParticleSystemCreateBurst(ps, x, y, count, draw) ==
    ParticleSystemBurstFrom(ps, 0, x, y, count, draw)

\* createConstantParticles() at time t: randomIntBetween(1, 3) particles around
\* the cursor, at distance 10 (draw "low", angle 0) or 50 (draw "high", angle
\* 3/4 pi)
ParticleSystemCreateConstantParticles(ps, t, draw) ==
    IF t - ps.lastEmit < ConstantEmitRate THEN ps
    ELSE ParticleSystemCreateParticles(
             [ps EXCEPT !.lastEmit = t], Pick(draw, 1, 3),
             Clamp(ps.mouseX + Pick(draw, 10, 0 - 35), 0, CanvasWidth),
             Clamp(ps.mouseY + Pick(draw, 0, 35), 0, CanvasHeight),
             FALSE, 10, draw)

\* the first filter releasing the expired particles but keeping them in the list
ParticleSystemFilterDead_KeepsReleased(ps, dt) ==
    LET updated == [i \in 1..Len(ps.particles) |-> ParticleUpdate(ps.particles[i], dt)]
        dead == SelectSeq(updated, LAMBDA p : ~p.isActive)
    IN  [ps EXCEPT !.particles = updated,
                   !.pool = PoolReleaseAll(ps.pool, Ids(dead)),
                   !.released = ps.released \o Ids(dead)]

\* update(deltaTime): the first filter (particles whose update reports expiry)
ParticleSystemFilterDead(ps, dt) ==
    LET updated == [i \in 1..Len(ps.particles) |-> ParticleUpdate(ps.particles[i], dt)]
        dead == SelectSeq(updated, LAMBDA p : ~p.isActive)
        kept == SelectSeq(updated, LAMBDA p : p.isActive)
    IN  [ps EXCEPT !.particles = kept,
                   !.pool = PoolReleaseAll(ps.pool, Ids(dead)),
                   !.released = ps.released \o Ids(dead)]

\* the second filter dropping the off-screen particles without releasing them
ParticleSystemFilterOffscreen_NoRelease(ps) ==
    [ps EXCEPT !.particles = SelectSeq(ps.particles, LAMBDA p : ~ParticleOffscreen(p))]

\* update(deltaTime): the second filter (particles that left the canvas)
ParticleSystemFilterOffscreen(ps) ==
    LET gone == SelectSeq(ps.particles, ParticleOffscreen)
        kept == SelectSeq(ps.particles, LAMBDA p : ~ParticleOffscreen(p))
    IN  [ps EXCEPT !.particles = kept,
                   !.pool = PoolReleaseAll(ps.pool, Ids(gone)),
                   !.released = ps.released \o Ids(gone)]

\* update(deltaTime) at time t
ParticleSystemUpdate(ps, dt, t, draw) ==
    ParticleSystemFilterOffscreen(
        ParticleSystemFilterDead(
            ParticleSystemCreateConstantParticles(ps, t, draw), dt))

\* clear releasing every particle without emptying the list
ParticleSystemClear_KeepsList(ps) ==
    [ps EXCEPT !.pool = PoolReleaseAll(ps.pool, Ids(ps.particles)),
               !.released = ps.released \o Ids(ps.particles)]

\* clear()
ParticleSystemClear(ps) ==
    [ps EXCEPT !.particles = <<>>,
               !.pool = PoolReleaseAll(ps.pool, Ids(ps.particles)),
               !.released = ps.released \o Ids(ps.particles)]

(***************************************************************************)
(* Characters and key codes.  Strings are atomic values, so the string     *)
(* functions of the source are the tables below.                           *)
(***************************************************************************)
LowerLetters == <<"a", "b", "c", "d", "e", "f", "g", "h", "i", "j", "k", "l", "m",
                  "n", "o", "p", "q", "r", "s", "t", "u", "v", "w", "x", "y", "z">>
UpperLetters == <<"A", "B", "C", "D", "E", "F", "G", "H", "I", "J", "K", "L", "M",
                  "N", "O", "P", "Q", "R", "S", "T", "U", "V", "W", "X", "Y", "Z">>
DigitChars == <<"0", "1", "2", "3", "4", "5", "6", "7", "8", "9">>
\* event.code of the letter and digit keys, in the order of the tables above
LetterCodes == <<"KeyA", "KeyB", "KeyC", "KeyD", "KeyE", "KeyF", "KeyG", "KeyH",
                 "KeyI", "KeyJ", "KeyK", "KeyL", "KeyM", "KeyN", "KeyO", "KeyP",
                 "KeyQ", "KeyR", "KeyS", "KeyT", "KeyU", "KeyV", "KeyW", "KeyX",
                 "KeyY", "KeyZ">>
DigitCodes == <<"Digit0", "Digit1", "Digit2", "Digit3", "Digit4", "Digit5",
                "Digit6", "Digit7", "Digit8", "Digit9">>
ArrowCodes == {"ArrowUp", "ArrowDown", "ArrowLeft", "ArrowRight"}

\* the index of v in the sequence seq, 0 when absent
IndexIn(seq, v) ==
    IF \E i \in 1..Len(seq) : seq[i] = v
    THEN CHOOSE i \in 1..Len(seq) : seq[i] = v
    ELSE 0

\* String.prototype.toLowerCase and toUpperCase on one character
ToLowerCase(ch) ==
    IF IndexIn(UpperLetters, ch) > 0 THEN LowerLetters[IndexIn(UpperLetters, ch)] ELSE ch

ToUpperCase(ch) ==
    IF IndexIn(LowerLetters, ch) > 0 THEN UpperLetters[IndexIn(LowerLetters, ch)] ELSE ch

\* ch.charCodeAt(0) for the letters and digits
CharCodeAt(ch) ==
    IF IndexIn(LowerLetters, ch) > 0 THEN 96 + IndexIn(LowerLetters, ch)
    ELSE IF IndexIn(UpperLetters, ch) > 0 THEN 64 + IndexIn(UpperLetters, ch)
    ELSE 47 + IndexIn(DigitChars, ch)

\* parseInt(ch) || 0 for one character
ParseIntOrZero(ch) ==
    IF IndexIn(DigitChars, ch) > 0 THEN IndexIn(DigitChars, ch) - 1 ELSE 0

(***************************************************************************)
(* ShapeManager.getShapeType                                               *)
(***************************************************************************)
\* CONFIG.shapes.types
ShapeTypes == <<"circle", "square", "triangle", "star", "heart">>

\* getShapeType with the letters drawn at random like the other keys
GetShapeType_RandomLetters(keyInfo, rnd) ==
    CASE keyInfo.type = "number" ->
             ShapeTypes[(ParseIntOrZero(keyInfo.character) % Len(ShapeTypes)) + 1]
      [] keyInfo.type = "space" -> "heart"
      [] keyInfo.type = "enter" -> "star"
      [] keyInfo.type = "arrow" -> "triangle"
      [] OTHER -> ShapeTypes[rnd + 1]

\* getShapeType(keyInfo); rnd is Math.floor(Math.random() * types.length)
GetShapeType(keyInfo, rnd) ==
    CASE keyInfo.type = "letter" ->
             IF keyInfo.character = ToUpperCase(keyInfo.character)
             THEN "star"
             ELSE ShapeTypes[((CharCodeAt(ToLowerCase(keyInfo.character)) - 97)
                                 % Len(ShapeTypes)) + 1]
      [] keyInfo.type = "number" ->
             ShapeTypes[(ParseIntOrZero(keyInfo.character) % Len(ShapeTypes)) + 1]
      [] keyInfo.type = "space" -> "heart"
      [] keyInfo.type = "enter" -> "star"
      [] keyInfo.type = "arrow" -> "triangle"
      [] OTHER -> ShapeTypes[rnd + 1]

(***************************************************************************)
(* SoundManager: the note tables.  Frequencies are in hundredths of a      *)
(* hertz; 0 stands for undefined.                                          *)
(***************************************************************************)
\* MUSICAL_NOTES of the manager in use (sounds.js from line 444)
MusicalNotes ==
    [C4 |-> 26163, D4 |-> 29366, E4 |-> 32963, G4 |-> 39200, A4 |-> 44000,
     C5 |-> 52325, D5 |-> 58733, E5 |-> 65925, G5 |-> 78399, A5 |-> 88000,
     C6 |-> 104650, D6 |-> 117466, E6 |-> 131851]

\* NOTE_NAMES = Object.keys(MUSICAL_NOTES)
NoteNames == <<"C4", "D4", "E4", "G4", "A4", "C5", "D5", "E5", "G5", "A5",
               "C6", "D6", "E6">>

\* MUSICAL_NOTES and NOTE_NAMES of the earlier manager (sounds.js to line 438)
MusicalNotesFirst ==
    [C4 |-> 26163, D4 |-> 29366, E4 |-> 32963, G4 |-> 39200, A4 |-> 44000,
     C5 |-> 52325, D5 |-> 58733, E5 |-> 65925, G5 |-> 78399, A5 |-> 88000]

NoteNamesFirst == <<"C4", "D4", "E4", "G4", "A4", "C5", "D5", "E5", "G5", "A5">>

\* letterMap of getNoteForLetter: the note names of a..z
LetterMap ==
    <<"C4", "D4", "E4", "G4", "A4", "C5", "D5", "E5", "G5", "A5", "C4", "D4", "E4",
      "G4", "A4", "C5", "D5", "E5", "G5", "A5", "C4", "D4", "E4", "G4", "A4", "C4">>

\* getNoteForLetter looking the letter up without lowering its case
GetNoteForLetter_CaseSensitive(letter) ==
    IF IndexIn(LowerLetters, letter) > 0
    THEN MusicalNotes[LetterMap[IndexIn(LowerLetters, letter)]]
    ELSE MusicalNotes["C5"]

\* getNoteForLetter(letter): letterMap[letter.toLowerCase()] || MUSICAL_NOTES.C5
GetNoteForLetter(letter) ==
    IF IndexIn(LowerLetters, ToLowerCase(letter)) > 0
    THEN MusicalNotes[LetterMap[IndexIn(LowerLetters, ToLowerCase(letter))]]
    ELSE MusicalNotes["C5"]

\* getNoteForLetter(letter) of the earlier manager:
\* MUSICAL_NOTES[NOTE_NAMES[letterIndex % NOTE_NAMES.length]]
GetNoteForLetterFirst(letter) ==
    MusicalNotesFirst[
        NoteNamesFirst[((CharCodeAt(ToLowerCase(letter)) - CharCodeAt("a"))
                           % Len(NoteNamesFirst)) + 1]]

(***************************************************************************)
(* KeyboardHandler.  A keydown event ev is the record                      *)
(*   [code, key, ctrl, shift, alt, meta]                                   *)
(***************************************************************************)
\* BLOCKED_KEYS
BlockedKeys ==
    {"Alt", "AltLeft", "AltRight", "Control", "ControlLeft", "ControlRight",
     "Meta", "MetaLeft", "MetaRight", "OS", "OSLeft", "OSRight",
     "F1", "F2", "F3", "F4", "F5", "F6", "F7", "F8", "F9", "F10", "F11", "F12",
     "ContextMenu", "PrintScreen", "ScrollLock", "Pause", "Insert",
     "BrowserBack", "BrowserForward", "BrowserRefresh", "BrowserStop",
     "BrowserSearch", "BrowserFavorites", "BrowserHome"}

\* PARENT_CONTROLS in the order of Object.entries; every combination asks for
\* ctrl and shift and leaves alt and meta open
ParentControls ==
    <<[action |-> "exit", key |-> "Escape"],
      [action |-> "toggleSound", key |-> "KeyM"],
      [action |-> "clearScreen", key |-> "KeyC"],
      [action |-> "showControls", key |-> "KeyP"]>>

\* matchesKeyCombo that asks for ctrl alone
MatchesKeyCombo_CtrlOnly(ev, combo) ==
    ev.ctrl /\ (ev.code = combo.key \/ ev.key = combo.key)

\* matchesKeyCombo(event, combo)
MatchesKeyCombo(ev, combo) ==
    ev.ctrl /\ ev.shift /\ (ev.code = combo.key \/ ev.key = combo.key)

\* isParentControl(event)
IsParentControl(ev) ==
    \E i \in 1..Len(ParentControls) : MatchesKeyCombo(ev, ParentControls[i])

\* checkParentControls(event): the action of the first combination that
\* matches, "none" when none does
ParentControlAction(ev) ==
    IF IsParentControl(ev)
    THEN ParentControls[CHOOSE i \in 1..Len(ParentControls) :
                            /\ MatchesKeyCombo(ev, ParentControls[i])
                            /\ \A j \in 1..(i - 1) :
                                   ~MatchesKeyCombo(ev, ParentControls[j])].action
    ELSE "none"

\* shouldBlockKey without the test of the modifier keys held
ShouldBlockKey_ListOnly(ev) == ev.code \in BlockedKeys \/ ev.key \in BlockedKeys

\* shouldBlockKey(event)
ShouldBlockKey(ev) ==
    \/ ev.code \in BlockedKeys
    \/ ev.key \in BlockedKeys
    \/ ((ev.ctrl \/ ev.alt \/ ev.meta) /\ ~IsParentControl(ev))

\* isVowel(char)
IsVowel(ch) == ToLowerCase(ch) \in {"a", "e", "i", "o", "u"}

\* isPunctuation(char): the characters of the pattern that the events used
\* here can carry
IsPunctuation(ch) == ch \in {"!", ".", ",", ";", "/", "-", "="}

\* analyzeKey(event); count is this.keyPressCount and sinceLast is
\* performance.now() - this.lastKeyTime when it runs.  keyInfo.soundType is
\* left out: nothing reads it.
AnalyzeKey(ev, count, sinceLast) ==
    LET type == IF IndexIn(LetterCodes, ev.code) > 0 THEN "letter"
                ELSE IF IndexIn(DigitCodes, ev.code) > 0 THEN "number"
                ELSE IF ev.code = "Space" THEN "space"
                ELSE IF ev.code = "Enter" THEN "enter"
                ELSE IF ev.code = "Tab" THEN "tab"
                ELSE IF ev.code \in ArrowCodes THEN "arrow"
                ELSE IF IsPunctuation(ev.key) THEN "punctuation"
                ELSE "special"
        character == IF type = "letter" THEN ToLowerCase(ev.key)
                     ELSE IF type = "number" THEN ev.key
                     ELSE ""
        byType == CASE type = "space" -> "explosion"
                    [] type = "enter" -> "fireworks"
                    [] type = "tab" -> "whistle"
                    [] type = "arrow" -> "bounce"
                    [] type = "punctuation" -> "bubble"
                    [] OTHER -> "normal"
        byPattern == IF type = "letter" /\ IsVowel(character) THEN "sparkle"
                     ELSE IF type = "number" THEN "star"
                     ELSE byType
    IN  [code |-> ev.code, key |-> ev.key, type |-> type, character |-> character,
         effect |-> IF count > 0 /\ sinceLast < 200 THEN "rainbow" ELSE byPattern]

\* playKeySound(keyInfo): the sound type handed to playSound
KeySoundType(keyInfo) ==
    CASE keyInfo.effect = "explosion" -> "explosion"
      [] keyInfo.effect = "fireworks" -> "fireworks"
      [] keyInfo.effect = "sparkle" -> "sparkle"
      [] keyInfo.effect = "rainbow" -> "chime"
      [] OTHER -> CASE keyInfo.type = "letter" -> "note"
                    [] keyInfo.type = "number" -> "chime"
                    [] keyInfo.type = "space" -> "explosion"
                    [] keyInfo.type = "enter" -> "fireworks"
                    [] keyInfo.type = "arrow" -> "toy"
                    [] OTHER -> "note"

(***************************************************************************)
(* The managers as held in the variables                                   *)
(***************************************************************************)
SM == [shapes |-> shapes, pool |-> shapePool, acquired |-> <<>>, released |-> <<>>]

PS == [particles |-> particles, pool |-> particlePool,
       lastEmit |-> lastConstantEmitTime, mouseX |-> mouseX, mouseY |-> mouseY,
       acquired |-> <<>>, released |-> <<>>]

SetSM(sm) ==
    /\ shapes' = sm.shapes
    /\ shapePool' = sm.pool

SetPS(ps) ==
    /\ particles' = ps.particles
    /\ particlePool' = ps.pool
    /\ lastConstantEmitTime' = ps.lastEmit
    /\ mouseX' = ps.mouseX
    /\ mouseY' = ps.mouseY

\* the record kept in lastOp for the operation name that left the manager in m
Op(name, m) ==
    [name |-> name, prev |-> lastOp.name,
     acquired |-> m.acquired, released |-> m.released, button |-> 0 - 1]

NoOp == [name |-> "none", prev |-> "none", acquired |-> <<>>, released |-> <<>>,
         button |-> 0 - 1]

\* new ShapeManager(canvas), new ParticleSystem(canvas)
InitEntities ==
    /\ now = 0
    /\ shapes = ShapeManagerInit.shapes
    /\ shapePool = ShapeManagerInit.pool
    /\ particles = ParticleSystemInit.particles
    /\ particlePool = ParticleSystemInit.pool
    /\ lastConstantEmitTime = ParticleSystemInit.lastEmit
    /\ mouseX = ParticleSystemInit.mouseX
    /\ mouseY = ParticleSystemInit.mouseY
    /\ lastOp = NoOp
    /\ spawnCalls = 0
    /\ clearCalls = 0
    /\ menuDue = FALSE

NoTick == [kind |-> "none", at |-> 0, dt |-> 0, afterPause |-> FALSE]

\* new BabyKeyboardGame(): the constructor; document visible, parent controls
\* hidden, no frame callback requested
InitDriver ==
    /\ isInitialized = FALSE
    /\ isRunning = FALSE
    /\ isPaused = FALSE
    /\ animationId = 0
    /\ lastFrameTime = 0
    /\ controlsHidden = TRUE
    /\ docHidden = FALSE
    /\ pending = {}
    /\ due = {}
    /\ lastTick = NoTick
    /\ updateCalls = 0
    /\ pausedSinceTick = FALSE
    /\ tickedSinceStart = FALSE
    /\ stoppedAt = 0 - 1

NoPlay == [type |-> "none", outcome |-> "none", via |-> "none"]

\* new SoundManager(): the constructor, init() still pending
InitSound ==
    /\ isEnabled = TRUE
    /\ useWebAudio = FALSE
    /\ soundInitPending = TRUE
    /\ synthesis = "ok"
    /\ activeSounds = {}
    /\ timers = {}
    /\ signals = {}
    /\ lastPlay = NoPlay
    /\ noteTimers = {}
    /\ melodyCalls = 0

NoKey == [code |-> "none", outcome |-> "none", effect |-> "none", at |-> 0,
          shape |-> "none",
          event |-> [code |-> "none", key |-> "none", ctrl |-> FALSE,
                     shift |-> FALSE, alt |-> FALSE, meta |-> FALSE]]

NoFrame == [dt |-> 0, drawn |-> {}, expired |-> {}, until |-> 0]

NoCall == [fn |-> "none", arg |-> "none", result |-> "none",
           prevFn |-> "none", prevArg |-> "none", prevResult |-> "none"]

\* new KeyboardHandler(): the constructor; no frame rendered yet
InitKeyboard ==
    /\ gameActive = FALSE
    /\ lastKeyTime = 0
    /\ keyPressCount = 0
    /\ lastKey = NoKey
    /\ keyCalls = 0
    /\ lastFrame = NoFrame
    /\ lastCall = NoCall

(***************************************************************************)
(* SpecManagers: the public operations of ShapeManager and ParticleSystem  *)
(* called in any order.  A behaviour exercises one of the two managers.    *)
(***************************************************************************)
BetweenRuns == Len(shapes) % RunLength = 0 \/ Len(shapes) >= MaxActiveShapes

InitManagers ==
    /\ focus \in {"shapes", "particles"}
    /\ InitEntities
    /\ InitDriver
    /\ InitSound
    /\ InitKeyboard

\* shapeManager.createShape(keyInfo)
CreateShape(effect) ==
    /\ focus = "shapes"
    /\ effect # "normal" => Len(shapes) < SpecialPrefix
    /\ LET sm == ShapeManagerCreateShape(SM, effect, now)
       IN  /\ SetSM(sm)
           /\ lastOp' = Op("ShapeManager.createShape", sm)
    /\ UNCHANGED <<keyVars, playHistoryVars,
                   now, focus, particleVars, spawnCalls, clearCalls,
                   driverVars, driverHistoryVars, soundVars>>

\* shapeManager.update(deltaTime), dt after the previous call
UpdateShapes(dt) ==
    /\ focus = "shapes"
    /\ BetweenRuns
    /\ now + dt <= MaxTime
    /\ now' = now + dt
    /\ LET sm == ShapeManagerUpdate(SM, now + dt)
       IN  /\ SetSM(sm)
           /\ lastOp' = Op("ShapeManager.update", sm)
    /\ UNCHANGED <<keyVars, playHistoryVars,
                   focus, particleVars, spawnCalls, clearCalls,
                   driverVars, driverHistoryVars, soundVars>>

\* shapeManager.clear()
ClearShapes ==
    /\ focus = "shapes"
    /\ BetweenRuns
    /\ clearCalls < MaxClears
    /\ clearCalls' = clearCalls + 1
    /\ LET sm == ShapeManagerClear(SM)
       IN  /\ SetSM(sm)
           /\ lastOp' = Op("ShapeManager.clear", sm)
    /\ UNCHANGED <<keyVars, playHistoryVars,
                   now, focus, particleVars, spawnCalls,
                   driverVars, driverHistoryVars, soundVars>>

\* particleSystem.createParticle(x, y, options)
CreateParticle(pt, isClick, draw) ==
    /\ focus \in {"particles", "spawn"}
    /\ spawnCalls < MaxSpawnCalls
    /\ spawnCalls' = spawnCalls + 1
    /\ LET ps == ParticleSystemCreateParticle(PS, pt.x, pt.y, isClick, 10, draw)
       IN  /\ SetPS(ps)
           /\ lastOp' = Op("ParticleSystem.createParticle", ps)
    /\ UNCHANGED <<keyVars, playHistoryVars,
                   now, focus, shapeVars, clearCalls,
                   driverVars, driverHistoryVars, soundVars>>

\* particleSystem.createClickEffect(x, y, button)
CreateClickEffect(pt, button, draw) ==
    /\ focus \in {"particles", "spawn", "pointer"}
    /\ spawnCalls < MaxSpawnCalls
    /\ spawnCalls' = spawnCalls + 1
    /\ LET ps == ParticleSystemCreateClickEffect(PS, pt.x, pt.y, button, draw)
       IN  /\ SetPS(ps)
           /\ lastOp' = Op("ParticleSystem.createClickEffect", ps)
    /\ UNCHANGED <<keyVars, playHistoryVars,
                   now, focus, shapeVars, clearCalls,
                   driverVars, driverHistoryVars, soundVars>>

\* particleSystem.createBurst(x, y, count)
CreateBurst(pt, count, draw) ==
    /\ focus \in {"particles", "spawn", "burst"}
    /\ spawnCalls < MaxSpawnCalls
    /\ spawnCalls' = spawnCalls + 1
    /\ LET ps == ParticleSystemCreateBurst(PS, pt.x, pt.y, count, draw)
       IN  /\ SetPS(ps)
           /\ lastOp' = Op("ParticleSystem.createBurst", ps)
    /\ UNCHANGED <<keyVars, playHistoryVars,
                   now, focus, shapeVars, clearCalls,
                   driverVars, driverHistoryVars, soundVars>>

\* particleSystem.update(deltaTime), dt after the previous call
UpdateParticles(dt, draw) ==
    /\ focus \in {"particles", "pointer", "spawn"}
    /\ now + dt <= (IF focus = "pointer" THEN PointerWindow ELSE MaxTime)
    /\ now' = now + dt
    /\ LET ps == ParticleSystemUpdate(PS, dt, now + dt, draw)
       IN  /\ SetPS(ps)
           /\ lastOp' = Op("ParticleSystem.update", ps)
    /\ UNCHANGED <<keyVars, playHistoryVars,
                   focus, shapeVars, spawnCalls, clearCalls,
                   driverVars, driverHistoryVars, soundVars>>

\* particleSystem.clear()
ClearParticles ==
    /\ focus = "particles"
    /\ clearCalls < MaxClears
    /\ clearCalls' = clearCalls + 1
    /\ LET ps == ParticleSystemClear(PS)
       IN  /\ SetPS(ps)
           /\ lastOp' = Op("ParticleSystem.clear", ps)
    /\ UNCHANGED <<keyVars, playHistoryVars,
                   now, focus, shapeVars, spawnCalls,
                   driverVars, driverHistoryVars, soundVars>>

NextManagers ==
    \/ \E effect \in EffectChoices : CreateShape(effect)
    \/ \E dt \in DtChoices : UpdateShapes(dt)
    \/ ClearShapes
    \/ \E pt \in PointChoices, draw \in DrawChoices : CreateParticle(pt, FALSE, draw)
    \/ \E pt \in PointChoices, button \in ButtonChoices, draw \in DrawChoices :
           CreateClickEffect(pt, button, draw)
    \/ \E pt \in PointChoices, count \in BurstCounts, draw \in DrawChoices :
           CreateBurst(pt, count, draw)
    \/ \E dt \in DtChoices, draw \in DrawChoices : UpdateParticles(dt, draw)
    \/ ClearParticles

SpecManagers == InitManagers /\ [][NextManagers]_vars

(***************************************************************************)
(* SpecDriver: the frame driver of BabyKeyboardGame.  The browser delivers *)
(* a frame every FrameInterval while the document is visible and runs the  *)
(* requested callbacks of a frame before the next frame; no callback runs  *)
(* while the document is hidden.                                           *)
(***************************************************************************)
\* requestAnimationFrame: a handle that is neither pending nor held
NewHandle(held) ==
    CHOOSE h \in 1..(Cardinality(pending) + 2) :
        /\ h \notin pending
        /\ h # held
        /\ \A k \in 1..(h - 1) : k \in pending \/ k = held

\* gameLoop: the test that skips a frame
TickSkipped_IgnoresPause == ~isRunning

TickSkipped == ~isRunning \/ isPaused

InitDriverSpec ==
    /\ focus = "driver"
    /\ InitEntities
    /\ InitDriver
    /\ InitSound
    /\ InitKeyboard

\* init() settles
FinishInit ==
    /\ focus \in {"driver", "pause"}
    /\ ~isInitialized
    /\ isInitialized' = TRUE
    /\ UNCHANGED <<keyVars, playHistoryVars,
                   now, focus, shapeVars, particleVars, historyVars, isRunning,
                   isPaused, animationId, lastFrameTime, controlsHidden, docHidden,
                   pending, due, driverHistoryVars, soundVars>>

\* startGame() with a startGameLoop() that requests a frame without cancelling
\* the one it holds
StartGame_NoCancel ==
    /\ focus \in {"driver", "play", "keys"}
    /\ ~docHidden
    /\ IF ~isInitialized
       THEN UNCHANGED <<isRunning, animationId, pending, due, tickedSinceStart,
                        stoppedAt>>
       ELSE /\ isRunning' = TRUE
            /\ animationId' = NewHandle(animationId)
            /\ pending' = pending \cup {NewHandle(animationId)}
            /\ due' = due
            /\ tickedSinceStart' = FALSE
            /\ stoppedAt' = 0 - 1
    /\ gameActive' = (isInitialized \/ gameActive)
    /\ UNCHANGED <<lastKeyTime, keyPressCount, playHistoryVars,
                   now, focus, shapeVars, particleVars, historyVars, isInitialized,
                   isPaused, lastFrameTime, controlsHidden, docHidden, lastTick,
                   updateCalls, pausedSinceTick, soundVars>>

\* startGame(), which runs startGameLoop()
StartGame ==
    /\ focus \in {"driver", "play", "keys", "pause"}
    /\ ~docHidden
    /\ IF ~isInitialized
       THEN UNCHANGED <<isRunning, animationId, pending, due, tickedSinceStart,
                        stoppedAt>>
       ELSE /\ isRunning' = TRUE
            /\ animationId' = NewHandle(animationId)
            /\ pending' = (pending \ {animationId}) \cup {NewHandle(animationId)}
            /\ due' = due \ {animationId}
            /\ tickedSinceStart' = FALSE
            /\ stoppedAt' = 0 - 1
    /\ gameActive' = (isInitialized \/ gameActive)
    /\ UNCHANGED <<lastKeyTime, keyPressCount, playHistoryVars,
                   now, focus, shapeVars, particleVars, historyVars, isInitialized,
                   isPaused, lastFrameTime, controlsHidden, docHidden, lastTick,
                   updateCalls, pausedSinceTick, soundVars>>

\* exitGame() without its cancelAnimationFrame
ExitGame_KeepsCallback ==
    /\ focus = "driver"
    /\ isInitialized
    /\ ~docHidden
    /\ isRunning' = FALSE
    /\ animationId' = 0
    /\ SetSM(ShapeManagerClear(SM))
    /\ SetPS(ParticleSystemClear(PS))
    /\ controlsHidden' = TRUE
    /\ tickedSinceStart' = FALSE
    /\ stoppedAt' = now
    /\ gameActive' = FALSE
    /\ lastKeyTime' = 0
    /\ keyPressCount' = 0
    /\ UNCHANGED <<playHistoryVars,
                   now, focus, historyVars, isInitialized, isPaused, lastFrameTime,
                   docHidden, pending, due, lastTick, updateCalls, pausedSinceTick,
                   soundVars>>

\* exitGame(), which runs clearScreen()
ExitGame ==
    /\ focus = "driver"
    /\ isInitialized
    /\ ~docHidden
    /\ isRunning' = FALSE
    /\ animationId' = 0
    /\ pending' = pending \ {animationId}
    /\ due' = due \ {animationId}
    /\ SetSM(ShapeManagerClear(SM))
    /\ SetPS(ParticleSystemClear(PS))
    /\ controlsHidden' = TRUE
    /\ tickedSinceStart' = FALSE
    /\ stoppedAt' = now
    /\ gameActive' = FALSE
    /\ lastKeyTime' = 0
    /\ keyPressCount' = 0
    /\ UNCHANGED <<playHistoryVars,
                   now, focus, historyVars, isInitialized, isPaused, lastFrameTime,
                   docHidden, lastTick, updateCalls, pausedSinceTick, soundVars>>

\* destroy(), which runs particleSystem.destroy()
Destroy ==
    /\ focus = "driver"
    /\ isInitialized
    /\ isRunning' = FALSE
    /\ pending' = pending \ {animationId}
    /\ due' = due \ {animationId}
    /\ SetPS(ParticleSystemClear(PS))
    /\ tickedSinceStart' = FALSE
    /\ stoppedAt' = now
    /\ gameActive' = FALSE
    /\ UNCHANGED <<lastKeyTime, keyPressCount, playHistoryVars,
                   now, focus, shapeVars, historyVars, isInitialized, isPaused,
                   animationId, lastFrameTime, controlsHidden, docHidden, lastTick,
                   updateCalls, pausedSinceTick, soundVars>>

\* toggleParentControls()
ToggleParentControls ==
    /\ focus = "driver"
    /\ isInitialized
    /\ ~docHidden
    /\ controlsHidden' = ~controlsHidden
    /\ isPaused' = controlsHidden
    /\ pausedSinceTick' = (pausedSinceTick \/ controlsHidden)
    /\ UNCHANGED <<keyVars, playHistoryVars,
                   now, focus, shapeVars, particleVars, historyVars, isInitialized,
                   isRunning, animationId, lastFrameTime, docHidden, pending, due,
                   lastTick, updateCalls, tickedSinceStart, stoppedAt, soundVars>>

\* handleVisibilityChange() on the visibilitychange event
VisibilityChange ==
    /\ focus \in {"driver", "pause"}
    /\ isInitialized
    /\ docHidden' = ~docHidden
    /\ isPaused' = IF ~docHidden THEN TRUE
                   ELSE IF isRunning THEN FALSE ELSE isPaused
    /\ pausedSinceTick' = (pausedSinceTick \/ ~docHidden)
    /\ UNCHANGED <<keyVars, playHistoryVars,
                   now, focus, shapeVars, particleVars, historyVars, isInitialized,
                   isRunning, animationId, lastFrameTime, controlsHidden, pending,
                   due, lastTick, updateCalls, tickedSinceStart, stoppedAt,
                   soundVars>>

\* the callback gameLoop(currentTime) run for the handle h; draw is the outcome
\* of the Math.random() calls of the particle emission
GameLoop(h, draw) ==
    /\ focus \in {"driver", "pause"}
    /\ h \in due
    /\ ~docHidden
    /\ animationId' = NewHandle(h)
    /\ pending' = (pending \ {h}) \cup {NewHandle(h)}
    /\ due' = due \ {h}
    /\ IF TickSkipped
       THEN /\ lastTick' = [kind |-> "skipped", at |-> now, dt |-> 0,
                            afterPause |-> FALSE]
            /\ UNCHANGED <<shapeVars, particleVars, lastFrameTime, updateCalls,
                           pausedSinceTick, tickedSinceStart>>
       ELSE /\ lastFrameTime' = now
            /\ SetSM(ShapeManagerUpdate(SM, now))
            /\ SetPS(ParticleSystemUpdate(PS, now - lastFrameTime, now, draw))
            /\ updateCalls' = updateCalls + 1
            /\ lastTick' = [kind |-> "active", at |-> now,
                            dt |-> now - lastFrameTime,
                            afterPause |-> pausedSinceTick /\ tickedSinceStart]
            /\ pausedSinceTick' = FALSE
            /\ tickedSinceStart' = TRUE
    /\ UNCHANGED <<keyVars, playHistoryVars,
                   now, focus, historyVars, isInitialized, isRunning, isPaused,
                   controlsHidden, docHidden, stoppedAt, soundVars>>

\* the browser reaches the next frame, d after the previous one
Elapse(d) ==
    /\ focus \in {"driver", "pause"}
    /\ docHidden \/ (due = {} /\ d = FrameInterval)
    /\ now + d <= (IF focus = "pause" THEN MaxPlayTime ELSE MaxTime)
    /\ now' = now + d
    /\ due' = pending
    /\ UNCHANGED <<keyVars, playHistoryVars,
                   focus, shapeVars, particleVars, historyVars, isInitialized,
                   isRunning, isPaused, animationId, lastFrameTime, controlsHidden,
                   docHidden, pending, driverHistoryVars, soundVars>>

NextDriver ==
    \/ FinishInit
    \/ StartGame
    \/ ExitGame
    \/ Destroy
    \/ ToggleParentControls
    \/ VisibilityChange
    \/ \E h \in due, draw \in DrawChoices : GameLoop(h, draw)
    \/ \E d \in {FrameInterval, LongGap} : Elapse(d)

SpecDriver == InitDriverSpec /\ [][NextDriver]_vars

(***************************************************************************)
(* SpecSound: SoundManager.playSound, mute and the clean-up timers.  The   *)
(* audio clock and the timer clock are the variable now; a timer runs at   *)
(* the first instant of the model at or after its delay.                   *)
(***************************************************************************)
\* SOUND_TYPES[type].duration in milliseconds (note for an unknown type)
SoundDuration(type) ==
    CASE type = "chime"     -> 1200
      [] type = "bell"      -> 800
      [] type = "toy"       -> 400
      [] type = "sparkle"   -> 300
      [] type = "explosion" -> 1000
      [] type = "fireworks" -> 1500
      [] type = "bubble"    -> 500
      [] type = "boing"     -> 700
      [] type = "whistle"   -> 400
      [] type = "laugh"     -> 1000
      [] OTHER              -> 600

\* the time after the start at which the last oscillator of a sound of the
\* given config.duration is stopped: createChimeSound stops its oscillators at
\* twice the duration, every other create...Sound at the duration
SoundStopAfter(type, duration) ==
    IF type = "chime" THEN duration * 2 ELSE duration

\* the same for the duration of SOUND_TYPES[type]
SoundStopOffset(type) == SoundStopAfter(type, SoundDuration(type))

\* soundId = Date.now() + Math.random(): an id not in use
FreshSoundId ==
    LET used == activeSounds \cup {t.id : t \in timers} \cup {g.id : g \in signals}
    IN  CHOOSE i \in 1..(Cardinality(used) + 1) :
            i \notin used /\ \A k \in 1..(i - 1) : k \in used

\* playSound: the concurrency test admitting one sound more
SoundCapReached_OneMore == Cardinality(activeSounds) > MaxConcurrentSounds

\* playSound: the concurrency test
SoundCapReached == Cardinality(activeSounds) >= MaxConcurrentSounds

InitSoundSpec ==
    /\ focus = "sound"
    /\ InitEntities
    /\ InitDriver
    /\ InitSound
    /\ InitKeyboard

\* init() settles: Web Audio is available (ok) or not
FinishSoundInit(ok) ==
    /\ focus \in {"sound", "slots"}
    /\ soundInitPending
    /\ soundInitPending' = FALSE
    /\ useWebAudio' = ok
    /\ synthesis' \in (IF ok THEN SynthChoices ELSE {"ok"})
    /\ UNCHANGED <<keyVars, playHistoryVars,
                   now, focus, shapeVars, particleVars, historyVars, driverVars,
                   driverHistoryVars, isEnabled, activeSounds, timers, signals,
                   lastPlay, noteTimers, melodyCalls>>

\* playSound: the mute test never taken
SoundMuted_Never == FALSE

\* playSound: the mute test
SoundMuted == ~isEnabled

\* playSound with the clean-up timer of playWebAudioSound set inside the try
\* block, after the create...Sound call
PlaySoundEffect_TimerInTry(type, duration, via, synth) ==
    IF SoundMuted
    THEN /\ lastPlay' = [type |-> type, outcome |-> "muted", via |-> via]
         /\ UNCHANGED <<activeSounds, timers, signals>>
    ELSE IF SoundCapReached
    THEN /\ lastPlay' = [type |-> type, outcome |-> "dropped", via |-> via]
         /\ UNCHANGED <<activeSounds, timers, signals>>
    ELSE IF useWebAudio
    THEN /\ activeSounds' = activeSounds \cup {FreshSoundId}
         /\ signals' = IF synth = "ok"
                       THEN signals \cup
                                {[id |-> FreshSoundId, type |-> type,
                                  stopAt |-> now + SoundStopAfter(type, duration)]}
                       ELSE signals
         /\ timers' = IF synth = "ok"
                      THEN timers \cup
                               {[id |-> FreshSoundId,
                                 fireAt |-> now + duration + SlotReleaseDelay]}
                      ELSE timers
         /\ lastPlay' = [type |-> type, via |-> via,
                         outcome |-> IF synth = "ok" THEN "started" ELSE "failed"]
    ELSE /\ lastPlay' = [type |-> type, outcome |-> "fallback", via |-> via]
         /\ UNCHANGED <<activeSounds, timers, signals>>

\* playSound(type, frequency, {duration}) called directly (via "call") or from a
\* timer of playMelody/playChord (via "timer"); synth is the outcome of the
\* create...Sound call inside the try block of playWebAudioSound
PlaySoundEffect(type, duration, via, synth) ==
    IF SoundMuted
    THEN /\ lastPlay' = [type |-> type, outcome |-> "muted", via |-> via]
         /\ UNCHANGED <<activeSounds, timers, signals>>
    ELSE IF SoundCapReached
    THEN /\ lastPlay' = [type |-> type, outcome |-> "dropped", via |-> via]
         /\ UNCHANGED <<activeSounds, timers, signals>>
    ELSE IF useWebAudio
    THEN /\ activeSounds' = activeSounds \cup {FreshSoundId}
         /\ signals' = IF synth = "ok"
                       THEN signals \cup
                                {[id |-> FreshSoundId, type |-> type,
                                  stopAt |-> now + SoundStopAfter(type, duration)]}
                       ELSE signals
         /\ timers' = timers \cup
                {[id |-> FreshSoundId,
                  fireAt |-> now + duration + SlotReleaseDelay]}
         /\ lastPlay' = [type |-> type, via |-> via,
                         outcome |-> IF synth = "ok" THEN "started" ELSE "failed"]
    ELSE /\ lastPlay' = [type |-> type, outcome |-> "fallback", via |-> via]
         /\ UNCHANGED <<activeSounds, timers, signals>>

\* playSound(type), which runs playWebAudioSound or playFallbackSound.  Direct
\* calls are made while no timer of playMelody/playChord is outstanding.
PlaySound(type) ==
    /\ focus \in {"sound", "slots"}
    /\ focus = "slots" => now <= PlayWindow
    /\ noteTimers = {}
    /\ PlaySoundEffect(type, SoundDuration(type), "call", synthesis)
    /\ UNCHANGED <<keyVars, playHistoryVars,
                   now, focus, shapeVars, particleVars, historyVars, driverVars,
                   driverHistoryVars, isEnabled, useWebAudio, soundInitPending, synthesis,
                   noteTimers, melodyCalls>>

\* the timers set by playMelody(notes, noteLength) or playChord(notes, duration)
\* for count notes, one every spacing milliseconds
NoteTimersFor(type, count, spacing, duration) ==
    {[seq |-> i, fireAt |-> now + i * spacing, type |-> type, duration |-> duration] :
        i \in 0..(count - 1)}

\* playWelcomeSound(): playMelody of four notes of 0.4 s
PlayWelcomeSound ==
    /\ focus = "sound"
    /\ melodyCalls < MaxMelodyCalls
    /\ noteTimers = {}
    /\ melodyCalls' = melodyCalls + 1
    /\ noteTimers' = IF ~isEnabled THEN noteTimers
                     ELSE NoteTimersFor("note", 4, 400, 400)
    /\ UNCHANGED <<keyVars, playHistoryVars,
                   now, focus, shapeVars, particleVars, historyVars, driverVars,
                   driverHistoryVars, isEnabled, useWebAudio, soundInitPending, synthesis,
                   activeSounds, timers, signals, lastPlay>>

\* playSuccessSound(): playChord of three notes of 1.2 s, 50 ms apart
PlaySuccessSound ==
    /\ focus = "sound"
    /\ melodyCalls < MaxMelodyCalls
    /\ noteTimers = {}
    /\ melodyCalls' = melodyCalls + 1
    /\ noteTimers' = IF ~isEnabled THEN noteTimers
                     ELSE NoteTimersFor("chime", 3, 50, 1200)
    /\ UNCHANGED <<keyVars, playHistoryVars,
                   now, focus, shapeVars, particleVars, historyVars, driverVars,
                   driverHistoryVars, isEnabled, useWebAudio, soundInitPending, synthesis,
                   activeSounds, timers, signals, lastPlay>>

\* the earliest timer of playMelody/playChord that came due runs its playSound
RunNoteTimer ==
    /\ focus = "sound"
    /\ \E t \in noteTimers :
           /\ t.fireAt <= now
           /\ \A u \in noteTimers : u.seq >= t.seq
           /\ noteTimers' = noteTimers \ {t}
           /\ PlaySoundEffect(t.type, t.duration, "timer", synthesis)
    /\ UNCHANGED <<keyVars, playHistoryVars,
                   now, focus, shapeVars, particleVars, historyVars, driverVars,
                   driverHistoryVars, isEnabled, useWebAudio, soundInitPending, synthesis,
                   melodyCalls>>

\* toggleMute()
ToggleMute ==
    /\ focus = "sound"
    /\ isEnabled' = ~isEnabled
    /\ UNCHANGED <<keyVars, playHistoryVars,
                   now, focus, shapeVars, particleVars, historyVars, driverVars,
                   driverHistoryVars, useWebAudio, soundInitPending, synthesis,
                   activeSounds,
                   timers, signals, lastPlay, noteTimers, melodyCalls>>

\* d passes: the clean-up timers that came due run (activeSounds.delete) and
\* the oscillators whose stop time came are silent; the timers of
\* playMelody/playChord that were due have run before
AdvanceAudio(d) ==
    /\ focus = "sound"
    /\ now + d <= MaxTime
    /\ \A t \in noteTimers : t.fireAt > now
    /\ now' = now + d
    /\ activeSounds' = activeSounds \ {t.id : t \in {u \in timers : u.fireAt <= now + d}}
    /\ timers' = {t \in timers : t.fireAt > now + d}
    /\ signals' = {g \in signals : g.stopAt > now + d}
    /\ UNCHANGED <<keyVars, playHistoryVars,
                   focus, shapeVars, particleVars, historyVars, driverVars,
                   driverHistoryVars, isEnabled, useWebAudio, soundInitPending, synthesis,
                   lastPlay, noteTimers, melodyCalls>>

NextSound ==
    \/ \E ok \in BOOLEAN : FinishSoundInit(ok)
    \/ \E type \in SoundTypeChoices : PlaySound(type)
    \/ PlayWelcomeSound
    \/ PlaySuccessSound
    \/ RunNoteTimer
    \/ ToggleMute
    \/ AdvanceAudio(LongGap)

SpecSound == InitSoundSpec /\ [][NextSound]_vars

(***************************************************************************)
(* SpecSlots: playSound is called for a while and then no more; the        *)
(* browser runs every clean-up timer when its delay has passed.            *)
(***************************************************************************)
InitSlots ==
    /\ focus = "slots"
    /\ InitEntities
    /\ InitDriver
    /\ InitSound
    /\ InitKeyboard

\* the clock reaches the delay of the earliest clean-up timer: the setTimeout
\* callback of playWebAudioSound runs (activeSounds.delete), and the
\* oscillators whose stop time came are silent
RunSlotTimers ==
    /\ focus = "slots"
    /\ timers # {}
    /\ LET t == CHOOSE f \in {u.fireAt : u \in timers} :
                    \A u \in timers : u.fireAt >= f
       IN  /\ now' = t
           /\ activeSounds' = activeSounds \ {u.id : u \in {v \in timers : v.fireAt <= t}}
           /\ timers' = {u \in timers : u.fireAt > t}
           /\ signals' = {g \in signals : g.stopAt > t}
    /\ UNCHANGED <<keyVars, playHistoryVars,
                   focus, shapeVars, particleVars, historyVars, driverVars,
                   driverHistoryVars, isEnabled, useWebAudio, soundInitPending, synthesis,
                   lastPlay, noteTimers, melodyCalls>>

NextSlots ==
    \/ \E ok \in BOOLEAN : FinishSoundInit(ok)
    \/ \E type \in SoundTypeChoices : PlaySound(type)
    \/ RunSlotTimers

\* a timer whose delay has passed is run by the browser
SpecSlots == InitSlots /\ [][NextSlots]_vars /\ WF_vars(RunSlotTimers)

(***************************************************************************)
(* SpecShapeLife: Shape.init and Shape.update called through the shape     *)
(* manager with every effect tag, update being called one millisecond      *)
(* before, at, and one millisecond after each lifespan.                    *)
(***************************************************************************)
\* the times at which update is called
ProbeTimes ==
    {(AnimationDuration * f) \div 10 + k : f \in {10, 12, 13, 15, 20}, k \in {0 - 1, 0, 1}}

InitShapeLife ==
    /\ focus = "lifespan"
    /\ InitEntities
    /\ InitDriver
    /\ InitSound
    /\ InitKeyboard

\* shapeManager.createShape(keyInfo), keyInfo.effect = effect
SpawnProbe(effect) ==
    /\ focus \in {"lifespan", "phases"}
    /\ Len(shapes) < MaxProbeShapes
    /\ LET sm == ShapeManagerCreateShape(SM, effect, now)
       IN  /\ SetSM(sm)
           /\ lastOp' = Op("ShapeManager.createShape", sm)
    /\ UNCHANGED <<keyVars, playHistoryVars,
                   now, focus, particleVars, spawnCalls, clearCalls,
                   driverVars, driverHistoryVars, soundVars>>

\* shapeManager.update(deltaTime) called at time t
UpdateProbe(t) ==
    /\ focus \in {"lifespan", "phases"}
    /\ t > now
    /\ now' = t
    /\ LET sm == ShapeManagerUpdate(SM, t)
       IN  /\ SetSM(sm)
           /\ lastOp' = Op("ShapeManager.update", sm)
    /\ UNCHANGED <<keyVars, playHistoryVars,
                   focus, particleVars, spawnCalls, clearCalls,
                   driverVars, driverHistoryVars, soundVars>>

NextShapeLife ==
    \/ \E effect \in EffectTags : SpawnProbe(effect)
    \/ \E t \in ProbeTimes : UpdateProbe(t)

SpecShapeLife == InitShapeLife /\ [][NextShapeLife]_vars

(***************************************************************************)
(* SpecPhases: shapes of every effect tag made at time 0 and updated one   *)
(* millisecond before, at, and one millisecond after the end of the        *)
(* growth, the start of the fade-out and the lifespan of every effect.     *)
(***************************************************************************)
\* the times at which update is called
PhaseTimes ==
    LET lifespans == {ShapeLifespan(effect) : effect \in EffectTags}
    IN  UNION {{(3 * l) \div 10 + k, l - FadeOutDuration + k, l + k} :
                  l \in lifespans, k \in {0 - 1, 0, 1}}

InitPhases ==
    /\ focus = "phases"
    /\ InitEntities
    /\ InitDriver
    /\ InitSound
    /\ InitKeyboard

NextPhases ==
    \/ \E effect \in EffectTags : (now = 0 /\ SpawnProbe(effect))
    \/ \E t \in PhaseTimes : UpdateProbe(t)

SpecPhases == InitPhases /\ [][NextPhases]_vars

(***************************************************************************)
(* SpecTables: the table functions getShapeType and getNoteForLetter       *)
(* applied to every key category; a behaviour makes two calls.             *)
(***************************************************************************)
\* the keyInfo objects handed to getShapeType
KeyInfoChoices ==
    {[type |-> "letter", character |-> LowerLetters[i]] : i \in 1..Len(LowerLetters)}
    \cup {[type |-> "letter", character |-> UpperLetters[i]] : i \in 1..Len(UpperLetters)}
    \cup {[type |-> "number", character |-> DigitChars[i]] : i \in 1..Len(DigitChars)}
    \cup {[type |-> t, character |-> ""] : t \in {"space", "enter", "arrow", "special"}}

\* the letters handed to getNoteForLetter
LetterChoices ==
    {LowerLetters[i] : i \in 1..Len(LowerLetters)}
    \cup {UpperLetters[i] : i \in 1..Len(UpperLetters)}

\* the record kept in lastCall for the call fn(arg) that returned result
Call(fn, arg, result) ==
    [fn |-> fn, arg |-> arg, result |-> result,
     prevFn |-> lastCall.fn, prevArg |-> lastCall.arg, prevResult |-> lastCall.result]

InitTables ==
    /\ focus = "tables"
    /\ InitEntities
    /\ InitDriver
    /\ InitSound
    /\ InitKeyboard

\* shapeManager.getShapeType(keyInfo)
ApplyGetShapeType(keyInfo, rnd) ==
    /\ focus = "tables"
    /\ lastCall.prevFn = "none"
    /\ lastCall' = Call("getShapeType", keyInfo, GetShapeType(keyInfo, rnd))
    /\ UNCHANGED <<now, focus, shapeVars, particleVars, historyVars, driverVars,
                   driverHistoryVars, soundVars, keyVars, lastKey, keyCalls,
                   lastFrame, menuDue>>

\* soundManager.getNoteForLetter(letter)
ApplyGetNoteForLetter(letter) ==
    /\ focus = "tables"
    /\ lastCall.prevFn = "none"
    /\ lastCall' = Call("getNoteForLetter", letter, GetNoteForLetter(letter))
    /\ UNCHANGED <<now, focus, shapeVars, particleVars, historyVars, driverVars,
                   driverHistoryVars, soundVars, keyVars, lastKey, keyCalls,
                   lastFrame, menuDue>>

\* getNoteForLetter(letter) of the earlier manager
ApplyGetNoteForLetterFirst(letter) ==
    /\ focus = "tables"
    /\ lastCall.prevFn = "none"
    /\ lastCall' = Call("getNoteForLetterFirst", letter, GetNoteForLetterFirst(letter))
    /\ UNCHANGED <<now, focus, shapeVars, particleVars, historyVars, driverVars,
                   driverHistoryVars, soundVars, keyVars, lastKey, keyCalls,
                   lastFrame, menuDue>>

NextTables ==
    \/ \E keyInfo \in KeyInfoChoices :
           \E rnd \in (IF keyInfo.type = "special" THEN 0..(Len(ShapeTypes) - 1) ELSE {0}) :
               ApplyGetShapeType(keyInfo, rnd)
    \/ \E letter \in LetterChoices : ApplyGetNoteForLetter(letter)
    \/ \E letter \in LetterChoices : ApplyGetNoteForLetterFirst(letter)

SpecTables == InitTables /\ [][NextTables]_vars

(***************************************************************************)
(* SpecPlay: the game being played.  init() settles, the start button is   *)
(* pressed, keydown events arrive between the frames and the browser runs  *)
(* the frame callback every FrameInterval.  Time passes from one instant   *)
(* of interest to the next: the frame times and, KeyOffset after each      *)
(* frame, the instant at which keys are pressed.                           *)
(***************************************************************************)
\* the time after a frame at which a key is pressed: a shape with the rainbow
\* effect born then is one millisecond short of its lifespan on a later frame
KeyOffset == FrameInterval - ((((AnimationDuration * 13) \div 10) - 1) % FrameInterval)


\* the keydown events delivered while playing
PlayEvents ==
    {[code |-> "KeyB", key |-> "b", ctrl |-> FALSE, shift |-> FALSE,
      alt |-> FALSE, meta |-> FALSE],
     [code |-> "Space", key |-> " ", ctrl |-> FALSE, shift |-> FALSE,
      alt |-> FALSE, meta |-> FALSE],
     [code |-> "F5", key |-> "F5", ctrl |-> FALSE, shift |-> FALSE,
      alt |-> FALSE, meta |-> FALSE],
     [code |-> "KeyM", key |-> "M", ctrl |-> TRUE, shift |-> TRUE,
      alt |-> FALSE, meta |-> FALSE]}

\* the clock reads of render after that of update
RenderLagChoices == {0, MaxRenderLag}

InitPlay ==
    /\ focus = "play"
    /\ InitEntities
    /\ InitDriver
    /\ InitSound
    /\ InitKeyboard

\* init() settles after soundManager.init(): Web Audio is available (ok) or not
FinishInitPlay(ok) ==
    /\ focus \in {"play", "keys"}
    /\ ~isInitialized
    /\ isInitialized' = TRUE
    /\ soundInitPending' = FALSE
    /\ useWebAudio' = ok
    /\ synthesis' \in (IF ok THEN SynthChoices ELSE {"ok"})
    /\ UNCHANGED <<now, focus, shapeVars, particleVars, historyVars, isRunning,
                   isPaused, animationId, lastFrameTime, controlsHidden, docHidden,
                   pending, due, driverHistoryVars, isEnabled, activeSounds, timers,
                   signals, lastPlay, noteTimers, melodyCalls, keyVars,
                   playHistoryVars>>

\* handleKeyPress(keyInfo) while the game runs: createShape, playKeySound and
\* the burst of the explosion and fireworks effects at the position pt of the
\* new shape
HandleKeyPress(keyInfo, pt, draw) ==
    /\ SetSM(ShapeManagerCreateShape(SM, keyInfo.effect, now))
    /\ PlaySoundEffect(KeySoundType(keyInfo), SoundDuration(KeySoundType(keyInfo)),
                       "key", synthesis)
    /\ IF keyInfo.effect \in {"explosion", "fireworks"}
       THEN SetPS(ParticleSystemCreateBurst(
                      PS, pt.x, pt.y,
                      IF keyInfo.effect = "explosion" THEN 15 ELSE 10, draw))
       ELSE UNCHANGED particleVars

\* handleKeyDown: the test of the blocked keys
KeyDownBlocks(ev) == ShouldBlockKey(ev)

\* the record kept in lastKey for the event ev; shape is the type createShape
\* gave the shape of the key press
Key(ev, outcome, effect) ==
    [code |-> ev.code, outcome |-> outcome, effect |-> effect, at |-> now,
     shape |-> "none", event |-> ev]

\* handleKeyDown(event), which runs handleParentControl or handleKeyPress
KeyDown(ev, pt, draw) ==
    /\ focus \in {"play", "keys", "pause"}
    /\ isInitialized
    /\ keyCalls < MaxKeyDowns
    /\ now <= KeyWindow
    /\ now >= lastFrame.until
    /\ keyCalls' = keyCalls + 1
    /\ LET action == ParentControlAction(ev)
           keyInfo == AnalyzeKey(ev, keyPressCount + 1, 0)
       IN  IF action = "exit"
           THEN /\ isRunning' = FALSE
                /\ gameActive' = FALSE
                /\ keyPressCount' = 0
                /\ lastKeyTime' = 0
                /\ animationId' = 0
                /\ pending' = pending \ {animationId}
                /\ due' = due \ {animationId}
                /\ SetSM(ShapeManagerClear(SM))
                /\ SetPS(ParticleSystemClear(PS))
                /\ controlsHidden' = TRUE
                /\ tickedSinceStart' = FALSE
                /\ stoppedAt' = now
                /\ lastKey' = Key(ev, "parent", "none")
                /\ UNCHANGED <<isPaused, pausedSinceTick, isEnabled, activeSounds,
                               timers, signals, lastPlay>>
           ELSE IF action = "toggleSound"
           THEN /\ isEnabled' = ~isEnabled
                /\ lastKey' = Key(ev, "parent", "none")
                /\ UNCHANGED <<shapeVars, particleVars, isRunning, isPaused,
                               animationId, pending, due, controlsHidden,
                               pausedSinceTick, tickedSinceStart, stoppedAt,
                               activeSounds, timers, signals, lastPlay, keyVars>>
           ELSE IF action = "clearScreen"
           THEN /\ SetSM(ShapeManagerClear(SM))
                /\ SetPS(ParticleSystemClear(PS))
                /\ lastKey' = Key(ev, "parent", "none")
                /\ UNCHANGED <<isRunning, isPaused, animationId, pending, due,
                               controlsHidden, pausedSinceTick, tickedSinceStart,
                               stoppedAt, isEnabled, activeSounds, timers, signals,
                               lastPlay, keyVars>>
           ELSE IF action = "showControls"
           THEN /\ controlsHidden' = ~controlsHidden
                /\ isPaused' = controlsHidden
                /\ pausedSinceTick' = (pausedSinceTick \/ controlsHidden)
                /\ lastKey' = Key(ev, "parent", "none")
                /\ UNCHANGED <<shapeVars, particleVars, isRunning, animationId,
                               pending, due, tickedSinceStart, stoppedAt, isEnabled,
                               activeSounds, timers, signals, lastPlay, keyVars>>
           ELSE IF ~gameActive \/ KeyDownBlocks(ev) \/ now - lastKeyTime < 20
           THEN /\ lastKey' = Key(ev, IF ~gameActive THEN "inactive"
                                      ELSE IF KeyDownBlocks(ev) THEN "blocked"
                                      ELSE "cooldown", "none")
                /\ UNCHANGED <<shapeVars, particleVars, isRunning, isPaused,
                               animationId, pending, due, controlsHidden,
                               pausedSinceTick, tickedSinceStart, stoppedAt,
                               isEnabled, activeSounds, timers, signals, lastPlay,
                               keyVars>>
           ELSE /\ lastKeyTime' = now
                /\ keyPressCount' = keyPressCount + 1
                /\ lastKey' = [Key(ev, "forwarded", keyInfo.effect) EXCEPT !.shape =
                                   IF isRunning
                                   THEN GetShapeType(keyInfo, Pick(draw, 0, 4))
                                   ELSE "none"]
                /\ IF isRunning
                   THEN HandleKeyPress(keyInfo, pt, draw)
                   ELSE UNCHANGED <<shapeVars, particleVars, activeSounds, timers,
                                    signals, lastPlay>>
                /\ UNCHANGED <<isRunning, isPaused, animationId, pending, due,
                               controlsHidden, pausedSinceTick, tickedSinceStart,
                               stoppedAt, isEnabled, gameActive>>
    /\ UNCHANGED <<now, focus, historyVars, isInitialized, lastFrameTime, docHidden,
                   lastTick, updateCalls, useWebAudio, soundInitPending, synthesis,
                   noteTimers, melodyCalls, lastFrame, lastCall, menuDue>>

\* the entities a frame expires and draws: kind, age and lifespan of each
ShapeEntry(s, t) == [kind |-> "shape", age |-> t - s.createdAt, lifespan |-> s.lifespan]

ParticleEntry(p) == [kind |-> "particle", age |-> p.maxLife - p.life,
                     lifespan |-> p.maxLife]

\* the callback gameLoop(currentTime) run for the handle h: update(deltaTime)
\* and render(); Shape.render reads the clock lag after Shape.update did
PlayFrame(h, lag, draw) ==
    /\ focus \in {"play", "keys"}
    /\ h \in due
    /\ animationId' = NewHandle(h)
    /\ pending' = (pending \ {h}) \cup {NewHandle(h)}
    /\ due' = due \ {h}
    /\ IF TickSkipped
       THEN /\ lastTick' = [kind |-> "skipped", at |-> now, dt |-> 0,
                            afterPause |-> FALSE]
            /\ UNCHANGED <<shapeVars, particleVars, lastFrameTime, updateCalls,
                           pausedSinceTick, tickedSinceStart, lastFrame>>
       ELSE LET dt == now - lastFrameTime
                sm == ShapeManagerUpdate(SM, now)
                emitted == ParticleSystemCreateConstantParticles(PS, now, draw)
                ps == ParticleSystemUpdate(PS, dt, now, draw)
                stepped == [i \in 1..Len(emitted.particles) |->
                               ParticleUpdate(emitted.particles[i], dt)]
            IN  /\ lastFrameTime' = now
                /\ SetSM(sm)
                /\ SetPS(ps)
                /\ updateCalls' = updateCalls + 1
                /\ lastTick' = [kind |-> "active", at |-> now, dt |-> dt,
                                afterPause |-> pausedSinceTick /\ tickedSinceStart]
                /\ pausedSinceTick' = FALSE
                /\ tickedSinceStart' = TRUE
                /\ lastFrame' =
                       [dt |-> dt, until |-> now + lag,
                        expired |->
                            {ShapeEntry(shapes[i], now) :
                                 i \in {j \in 1..Len(shapes) :
                                            ~ShapeUpdateAlive(shapes[j], now)}}
                            \cup {ParticleEntry(stepped[i]) :
                                      i \in {j \in 1..Len(stepped) :
                                                 ~stepped[j].isActive}},
                        drawn |->
                            {ShapeEntry(sm.shapes[i], now + lag) :
                                 i \in 1..Len(sm.shapes)}
                            \cup {ParticleEntry(ps.particles[i]) :
                                      i \in 1..Len(ps.particles)}]
    /\ UNCHANGED <<now, focus, historyVars, isInitialized, isRunning, isPaused,
                   controlsHidden, docHidden, stoppedAt, soundVars, keyVars, lastKey,
                   keyCalls, lastCall, menuDue>>

\* time passes until the next instant of interest: the clean-up timers that
\* came due run and the oscillators whose stop time came are silent
Wait ==
    LET t == IF now % FrameInterval < KeyOffset
             THEN now - (now % FrameInterval) + KeyOffset
             ELSE now - (now % FrameInterval) + FrameInterval
    IN  /\ focus \in {"play", "keys"}
        /\ due = {}
        /\ t <= (IF focus = "keys" THEN KeyWindow ELSE MaxPlayTime)
        /\ now' = t
        /\ due' = IF t % FrameInterval = 0 THEN pending ELSE due
        /\ activeSounds' = activeSounds \ {x.id : x \in {u \in timers : u.fireAt <= t}}
        /\ timers' = {x \in timers : x.fireAt > t}
        /\ signals' = {g \in signals : g.stopAt > t}
        /\ UNCHANGED <<focus, shapeVars, particleVars, historyVars, isInitialized,
                       isRunning, isPaused, animationId, lastFrameTime,
                       controlsHidden, docHidden, pending, driverHistoryVars,
                       isEnabled, useWebAudio, soundInitPending, synthesis, lastPlay,
                       noteTimers, melodyCalls, keyVars, playHistoryVars>>

NextPlay ==
    \/ \E ok \in BOOLEAN : FinishInitPlay(ok)
    \/ (~isRunning /\ StartGame)
    \/ \E ev \in PlayEvents, pt \in PointChoices, draw \in {"low"} : KeyDown(ev, pt, draw)
    \/ \E h \in due, lag \in RenderLagChoices, draw \in {"low"} : PlayFrame(h, lag, draw)
    \/ Wait

SpecPlay == InitPlay /\ [][NextPlay]_vars

(***************************************************************************)
(* SpecKeys: keydown events of every kind (plain, shifted, in the blocked  *)
(* list by code or by key, with ctrl, alt or meta held, parent control)    *)
(* delivered before and during play.                                       *)
(***************************************************************************)
\* the keydown event of the key (code, key) with the modifiers held
KeyEvent(code, key, ctrl, shift, alt, meta) ==
    [code |-> code, key |-> key, ctrl |-> ctrl, shift |-> shift, alt |-> alt,
     meta |-> meta]

KeyEvents ==
    {KeyEvent("KeyB", "b", FALSE, FALSE, FALSE, FALSE),
     KeyEvent("KeyA", "A", FALSE, TRUE, FALSE, FALSE),
     KeyEvent("F5", "F5", FALSE, FALSE, FALSE, FALSE),
     KeyEvent("Insert", "Insert", FALSE, FALSE, FALSE, FALSE),
     KeyEvent("Unidentified", "BrowserBack", FALSE, FALSE, FALSE, FALSE),
     KeyEvent("AltLeft", "Alt", FALSE, FALSE, TRUE, FALSE),
     KeyEvent("KeyS", "s", TRUE, FALSE, FALSE, FALSE),
     KeyEvent("KeyF", "f", FALSE, FALSE, TRUE, FALSE),
     KeyEvent("KeyR", "r", FALSE, FALSE, FALSE, TRUE),
     KeyEvent("F5", "F5", TRUE, TRUE, FALSE, FALSE),
     KeyEvent("KeyC", "C", TRUE, TRUE, FALSE, FALSE),
     KeyEvent("Escape", "Escape", TRUE, TRUE, FALSE, FALSE),
     KeyEvent("KeyM", "M", TRUE, TRUE, FALSE, FALSE),
     KeyEvent("KeyP", "P", TRUE, TRUE, TRUE, FALSE),
     KeyEvent("KeyM", "m", TRUE, FALSE, FALSE, FALSE),
     KeyEvent("KeyP", "P", FALSE, TRUE, FALSE, FALSE),
     KeyEvent("Escape", "Escape", FALSE, FALSE, FALSE, FALSE),
     KeyEvent("Space", " ", FALSE, FALSE, FALSE, FALSE),
     KeyEvent("Enter", "Enter", FALSE, FALSE, FALSE, FALSE),
     KeyEvent("ArrowUp", "ArrowUp", FALSE, FALSE, FALSE, FALSE)}

InitKeys ==
    /\ focus = "keys"
    /\ InitEntities
    /\ InitDriver
    /\ InitSound
    /\ InitKeyboard

NextKeys ==
    \/ \E ok \in BOOLEAN : FinishInitPlay(ok)
    \/ (~isRunning /\ StartGame)
    \/ \E ev \in KeyEvents, pt \in PointChoices, draw \in {"low"} : KeyDown(ev, pt, draw)
    \/ \E h \in due, lag \in {0}, draw \in {"low"} : PlayFrame(h, lag, draw)
    \/ Wait

SpecKeys == InitKeys /\ [][NextKeys]_vars

(***************************************************************************)
(* SpecSpawn: the spawn operations of the particle system called with      *)
(* positions inside and outside the canvas, and update called for a frame  *)
(* that carries the timestamp of the frame before it (deltaTime = 0).      *)
(***************************************************************************)
InitSpawn ==
    /\ focus = "spawn"
    /\ InitEntities
    /\ InitDriver
    /\ InitSound
    /\ InitKeyboard

NextSpawn ==
    \/ \E pt \in SpawnPoints, draw \in DrawChoices : CreateParticle(pt, FALSE, draw)
    \/ \E pt \in SpawnPoints, button \in ButtonChoices, draw \in DrawChoices :
           CreateClickEffect(pt, button, draw)
    \/ \E pt \in SpawnPoints, count \in BurstCounts, draw \in DrawChoices :
           CreateBurst(pt, count, draw)
    \/ \E draw \in DrawChoices : UpdateParticles(0, draw)

SpecSpawn == InitSpawn /\ [][NextSpawn]_vars

(***************************************************************************)
(* SpecPointer: the pointer moves and presses on and beside the canvas     *)
(* (a touch that started on the canvas keeps reporting positions outside   *)
(* it) while update runs every frame.                                      *)
(***************************************************************************)
\* frame times of the updates
PointerDtChoices == {60, 120}

\* positions of the pointer events: the centre of the canvas and a point far
\* outside it
PointerPoints ==
    {[x |-> CanvasWidth \div 2, y |-> CanvasHeight \div 2],
     [x |-> CanvasWidth + 200, y |-> 0 - 200]}

InitPointer ==
    /\ focus = "pointer"
    /\ InitEntities
    /\ InitDriver
    /\ InitSound
    /\ InitKeyboard

\* handleMouseMove(event) and handleTouchMove(event)
HandleMouseMove(pt) ==
    /\ focus = "pointer"
    /\ mouseX' = pt.x
    /\ mouseY' = pt.y
    /\ lastOp' = Op("ParticleSystem.handleMouseMove", PS)
    /\ UNCHANGED <<now, focus, shapeVars, particles, particlePool,
                   lastConstantEmitTime, spawnCalls, clearCalls, driverVars,
                   driverHistoryVars, soundVars, keyVars, playHistoryVars>>

NextPointer ==
    \/ \E pt \in PointerPoints : HandleMouseMove(pt)
    \/ \E pt \in {p \in PointerPoints : p.x > CanvasWidth}, button \in ButtonChoices,
          draw \in {"low"} :
           CreateClickEffect(pt, button, draw)
    \/ \E dt \in PointerDtChoices, draw \in DrawChoices : UpdateParticles(dt, draw)

SpecPointer == InitPointer /\ [][NextPointer]_vars

(***************************************************************************)
(* SpecBurst: pointer presses on the canvas and the bursts of the key       *)
(* presses.  The browser delivers mousedown for every button, and for the   *)
(* right button a contextmenu event as well (with the press or with its     *)
(* release, by platform); on a touch device it delivers touchstart, whose   *)
(* handler cancels the emulated mouse events.                               *)
(***************************************************************************)
\* event.button of the mouse events
MouseButtons == {0, 1, 2}

\* particle counts main.js hands to createBurst
KeyBurstCounts == {10, 15}

InitBurst ==
    /\ focus = "burst"
    /\ InitEntities
    /\ InitDriver
    /\ InitSound
    /\ InitKeyboard

\* the 'mousedown' listener: handleMouseClick(event)
HandleMouseClick(pt, button, draw) ==
    /\ focus = "burst"
    /\ spawnCalls < MaxSpawnCalls
    /\ spawnCalls' = spawnCalls + 1
    /\ LET ps == ParticleSystemCreateClickEffect(PS, pt.x, pt.y, button, draw)
       IN  /\ SetPS(ps)
           /\ lastOp' = [Op("ParticleSystem.handleMouseClick", ps)
                            EXCEPT !.button = button]
    /\ menuDue' = (menuDue \/ button = 2)
    /\ UNCHANGED <<now, focus, shapeVars, clearCalls, driverVars, driverHistoryVars,
                   soundVars, keyVars, lastKey, keyCalls, lastFrame, lastCall>>

\* the 'contextmenu' listener: preventDefault() and handleMouseClick(e), the
\* event carrying the button that opened the menu
HandleContextMenu(pt, draw) ==
    /\ focus = "burst"
    /\ menuDue
    /\ spawnCalls < MaxSpawnCalls
    /\ spawnCalls' = spawnCalls + 1
    /\ LET ps == ParticleSystemCreateClickEffect(PS, pt.x, pt.y, 2, draw)
       IN  /\ SetPS(ps)
           /\ lastOp' = [Op("ParticleSystem.contextmenu", ps) EXCEPT !.button = 2]
    /\ menuDue' = FALSE
    /\ UNCHANGED <<now, focus, shapeVars, clearCalls, driverVars, driverHistoryVars,
                   soundVars, keyVars, lastKey, keyCalls, lastFrame, lastCall>>

\* the 'touchstart' listener: handleTouchStart(event) with a touch on the canvas
HandleTouchStart(pt, draw) ==
    /\ focus = "burst"
    /\ spawnCalls < MaxSpawnCalls
    /\ spawnCalls' = spawnCalls + 1
    /\ LET moved == [PS EXCEPT !.mouseX = pt.x, !.mouseY = pt.y]
           ps == ParticleSystemCreateClickEffect(moved, pt.x, pt.y, 0, draw)
       IN  /\ SetPS(ps)
           /\ lastOp' = [Op("ParticleSystem.handleTouchStart", ps) EXCEPT !.button = 0]
    /\ UNCHANGED <<now, focus, shapeVars, clearCalls, driverVars, driverHistoryVars,
                   soundVars, keyVars, playHistoryVars>>

NextBurst ==
    \/ \E pt \in PointChoices, button \in MouseButtons, draw \in DrawChoices :
           HandleMouseClick(pt, button, draw)
    \/ \E pt \in PointChoices, draw \in DrawChoices : HandleContextMenu(pt, draw)
    \/ \E pt \in PointChoices, draw \in DrawChoices : HandleTouchStart(pt, draw)
    \/ \E pt \in PointChoices, count \in KeyBurstCounts, draw \in DrawChoices :
           CreateBurst(pt, count, draw)

SpecBurst == InitBurst /\ [][NextBurst]_vars

(***************************************************************************)
(* SpecPause: keys are pressed while the game runs, the tab goes to the     *)
(* background for any length of time and comes back, and the frames run    *)
(* as in SpecDriver.                                                        *)
(***************************************************************************)
\* the keydown events delivered
PauseEvents == {KeyEvent("KeyB", "b", FALSE, FALSE, FALSE, FALSE)}

InitPause ==
    /\ focus = "pause"
    /\ InitEntities
    /\ InitDriver
    /\ InitSound
    /\ InitKeyboard

NextPause ==
    \/ FinishInit
    \/ (~isRunning /\ StartGame)
    \/ \E ev \in PauseEvents, pt \in PointChoices, draw \in {"low"} : KeyDown(ev, pt, draw)
    \/ VisibilityChange
    \/ \E h \in due, draw \in {"low"} : GameLoop(h, draw)
    \/ \E d \in {FrameInterval, LongGap} : Elapse(d)

SpecPause == InitPause /\ [][NextPause]_vars

(***************************************************************************)
(* SpecPlacement: createShape called on canvases of several sizes with     *)
(* every effect tag.                                                       *)
(***************************************************************************)
\* bounding rectangles of the canvas
RectChoices ==
    {[width |-> CanvasWidth, height |-> CanvasHeight],
     [width |-> 2 * ShapeMaxSize, height |-> 2 * ShapeMaxSize],
     [width |-> 2 * ShapeMaxSize - 40, height |-> CanvasHeight],
     [width |-> ShapeMaxSize - 20, height |-> ShapeMaxSize - 20]}

\* outcomes of one Math.random() call: the ends of its range
RandomChoices == {0, 999}

InitPlacement ==
    /\ focus = "placement"
    /\ InitEntities
    /\ InitDriver
    /\ InitSound
    /\ InitKeyboard

\* shapeManager.createShape(keyInfo) with keyInfo.effect = effect on a canvas
\* of bounding rectangle rect
PlaceShape(rect, effect, rx, ry, rs) ==
    /\ focus = "placement"
    /\ Len(shapes) < MaxProbeShapes
    /\ LET sm == ShapeManagerCreateShape(SM, effect, now)
       IN  /\ SetSM(sm)
           /\ lastOp' = Op("ShapeManager.createShape", sm)
    /\ lastCall' = Call("createShape", [rect |-> rect, effect |-> effect],
                        CreateShapePlacement(rect, effect, rx, ry, rs))
    /\ UNCHANGED <<now, focus, particleVars, spawnCalls, clearCalls, driverVars,
                   driverHistoryVars, soundVars, keyVars, lastKey, keyCalls,
                   lastFrame, menuDue>>

NextPlacement ==
    \E rect \in RectChoices, effect \in EffectTags :
        \E rx \in RandomChoices, ry \in RandomChoices, rs \in RandomChoices :
            PlaceShape(rect, effect, rx, ry, rs)

SpecPlacement == InitPlacement /\ [][NextPlacement]_vars

(***************************************************************************)
(* Properties of the entity managers (SpecManagers)                        *)
(***************************************************************************)

\* C1 (population cap): in every state, that is after every spawn operation
\* (createShape, createParticle, createClickEffect, createBurst, continuous
\* emission inside update), at most MaxActiveShapes shapes and at most
\* MaxActiveParticles particles are live.
C1_PopulationCap ==
    /\ Len(shapes) <= MaxActiveShapes
    /\ Len(particles) <= MaxActiveParticles

\* a createShape that found the collection full and left it full
C1_Witness ==
    /\ lastOp.name = "ShapeManager.createShape"
    /\ lastOp.released # <<>>
    /\ Len(shapes) = MaxActiveShapes

C3_PoolAccounting ==
    /\ shapePool.outstanding = Len(shapes)
    /\ particlePool.outstanding = Len(particles)

\* an update that emitted particles, released others and left some live
C3_Witness ==
    /\ lastOp.name = "ParticleSystem.update"
    /\ lastOp.acquired # <<>>
    /\ Len(lastOp.released) > 1
    /\ Len(particles) > 1

\* C4 (single ownership): no instance is in a live collection and in the
\* free-list of its pool at once, no instance occurs twice in a live
\* collection, and none occurs twice in a free-list (released twice without
\* a get in between).
C4_SingleOwnership ==
    /\ Cardinality({shapes[i].id : i \in 1..Len(shapes)}
                   \cup {shapePool.free[i] : i \in 1..Len(shapePool.free)})
           = Len(shapes) + Len(shapePool.free)
    /\ Cardinality({particles[i].id : i \in 1..Len(particles)}
                   \cup {particlePool.free[i] : i \in 1..Len(particlePool.free)})
           = Len(particles) + Len(particlePool.free)

\* an update after an earlier clear that released particles and kept others,
\* with instances constructed beyond the pre-populated ones
C4_Witness ==
    /\ lastOp.name = "ParticleSystem.update"
    /\ clearCalls > 0
    /\ lastOp.released # <<>>
    /\ particles # <<>>
    /\ particlePool.instances > ParticlePoolInitialSize

\* C5 (idempotent clear): clear() leaves the live collection empty, and a
\* clear() that directly follows a clear() releases nothing and leaves the
\* free-list as it was.
C5_IdempotentClear ==
    [][ /\ lastOp'.name = "ShapeManager.clear" => shapes' = <<>>
        /\ lastOp'.name = "ParticleSystem.clear" => particles' = <<>>
        /\ (lastOp'.name = "ShapeManager.clear" /\ lastOp.name = "ShapeManager.clear")
           => (lastOp'.released = <<>> /\ shapePool' = shapePool)
        /\ (lastOp'.name = "ParticleSystem.clear" /\ lastOp.name = "ParticleSystem.clear")
           => (lastOp'.released = <<>> /\ particlePool' = particlePool)
      ]_vars

\* a second clear() in a row; no update ran, so the first clear() released the
\* particles spawned before it
C5_Witness ==
    /\ lastOp.name = "ParticleSystem.clear"
    /\ lastOp.prev = "ParticleSystem.clear"
    /\ clearCalls = 2
    /\ spawnCalls > 0
    /\ now = 0
    /\ particles = <<>>

(***************************************************************************)
(* Properties of the frame driver (SpecDriver)                             *)
(***************************************************************************)

\* C6 (no catch-up after pause): when the game was paused since the previous
\* update of the running game, the dt handed to the first update after the
\* resume is at most one frame interval (it is measured from the last frame
\* seen, not from the last update before the pause).
C6_NoCatchUpAfterPause ==
    (lastTick.kind = "active" /\ lastTick.afterPause)
        => lastTick.dt <= FrameInterval

\* C7 (deterministic stop): from exitGame or destroy until the next startGame
\* no frame callback is left requested and no step calls update/render.
C7_DeterministicStop ==
    [][ stoppedAt >= 0 => (pending = {} /\ updateCalls' = updateCalls) ]_vars

\* frames went by after a stop that followed at least one update
C7_Witness ==
    /\ stoppedAt >= 0
    /\ ~isRunning
    /\ updateCalls > 0
    /\ now >= stoppedAt + 2 * FrameInterval

\* C8 (tick guard): a frame callback that runs while the game is paused or not
\* running changes no entity, calls neither update nor render and leaves
\* lastFrameTime alone.
C8_TickGuard ==
    [][ \A h \in due, draw \in DrawChoices :
            (GameLoop(h, draw) /\ (isPaused \/ ~isRunning))
                => UNCHANGED <<shapeVars, particleVars, lastFrameTime, updateCalls>>
      ]_vars

\* a callback ran while the running game was paused, with live particles
C8_Witness ==
    /\ lastTick.kind = "skipped"
    /\ lastTick.at = now
    /\ isRunning
    /\ isPaused
    /\ particles # <<>>

(***************************************************************************)
(* Properties of the sound manager (SpecSound)                             *)
(***************************************************************************)

\* C9 (sound cap drop): a playSound call made while enabled with
\* MaxConcurrentSounds sounds active starts no signal, takes no slot, sets no
\* timer (nothing is queued for later) and returns normally.
C9_SoundCapDrop ==
    [][ \A type \in SoundTypeChoices :
            (PlaySound(type) /\ isEnabled
                 /\ Cardinality(activeSounds) >= MaxConcurrentSounds)
                => /\ UNCHANGED <<activeSounds, timers, signals>>
                   /\ lastPlay'.outcome = "dropped"
      ]_vars

\* a call dropped with every slot taken
C9_Witness ==
    /\ lastPlay.outcome = "dropped"
    /\ Cardinality(activeSounds) = MaxConcurrentSounds
    /\ Cardinality(signals) = MaxConcurrentSounds

\* C10 (overlap bound): at no time are more than MaxConcurrentSounds signals
\* started by playSound still sounding.
C10_OverlapBound == Cardinality(signals) <= MaxConcurrentSounds

\* C11 (mute stops new signals): while the sound manager is disabled no step
\* starts a signal or takes a slot, whether playSound is called directly or
\* from a timer that playMelody/playChord set before the mute.
C11_MuteStopsNewSignals ==
    [][ ~isEnabled => (signals' \subseteq signals
                       /\ activeSounds' \subseteq activeSounds) ]_vars

\* a note timer set before the mute ran while the manager was disabled, with
\* Web Audio available and free slots
C11_Witness ==
    /\ ~isEnabled
    /\ useWebAudio
    /\ lastPlay.via = "timer"
    /\ lastPlay.outcome = "muted"
    /\ noteTimers # {}
    /\ Cardinality(activeSounds) < MaxConcurrentSounds

(***************************************************************************)
(* Properties of Shape life (SpecShapeLife)                                *)
(***************************************************************************)

\* C12 (shape expiry at lifespan): a call of update at time t keeps a shape of
\* age t - createdAt exactly when the age is below its lifespan and expires it
\* once the age has reached the lifespan, the lifespan being 3000 ms times 1.5
\* (explosion), 2 (fireworks), 1.2 (sparkle), 1.3 (rainbow) and 1 (any other
\* effect tag).
C12_ShapeExpiryAtLifespan ==
    [][ (now' # now /\ lastOp'.name = "ShapeManager.update") =>
          \A i \in 1..Len(shapes) :
              LET s == shapes[i]
                  age == now' - s.createdAt
                  lifespan == CASE s.effect = "explosion" -> 4500
                                [] s.effect = "fireworks" -> 6000
                                [] s.effect = "sparkle"   -> 3600
                                [] s.effect = "rainbow"   -> 3900
                                [] OTHER                  -> 3000
              IN  /\ (\E j \in 1..Len(shapes') : shapes'[j].id = s.id)
                         <=> (age < lifespan)
                  /\ (\E k \in 1..Len(lastOp'.released) : lastOp'.released[k] = s.id)
                         <=> (age >= lifespan) ]_vars

\* update was called at t = 4499: a shape expired in the call and an explosion
\* shape born at t = 0 is still alive
C12_Witness ==
    /\ focus = "lifespan"
    /\ now = 4499
    /\ lastOp.name = "ShapeManager.update"
    /\ lastOp.released # <<>>
    /\ \E i \in 1..Len(shapes) :
           shapes[i].effect = "explosion" /\ shapes[i].createdAt = 0

(***************************************************************************)
(* Properties of the table functions (SpecTables)                          *)
(***************************************************************************)

\* C15 (shape subtype table): getShapeType maps a lowercase letter to
\* types[(alphabetic index) mod 5], any uppercase letter to star, a digit to
\* types[value mod 5], space to heart, enter to star and arrow to triangle,
\* with types = circle, square, triangle, star, heart; two calls with the same
\* key of these categories return the same subtype, and so do the letters a
\* and k.
C15_ShapeSubtypeTable ==
    lastCall.fn = "getShapeType" =>
        LET types == <<"circle", "square", "triangle", "star", "heart">>
            k == lastCall.arg
            lower == IndexIn(LowerLetters, k.character)
            digit == IndexIn(DigitChars, k.character)
        IN  /\ (k.type = "letter" /\ lower > 0) =>
                   lastCall.result = types[((lower - 1) % 5) + 1]
            /\ (k.type = "letter" /\ IndexIn(UpperLetters, k.character) > 0) =>
                   lastCall.result = "star"
            /\ (k.type = "number" /\ digit > 0) =>
                   lastCall.result = types[((digit - 1) % 5) + 1]
            /\ k.type = "space" => lastCall.result = "heart"
            /\ k.type = "enter" => lastCall.result = "star"
            /\ k.type = "arrow" => lastCall.result = "triangle"
            /\ (lastCall.prevFn = "getShapeType" /\ k.type # "special"
                  /\ lastCall.prevArg = k) =>
                   lastCall.prevResult = lastCall.result
            /\ (lastCall.prevFn = "getShapeType" /\ k.type = "letter"
                  /\ k.character = "k" /\ lastCall.prevArg = [k EXCEPT !.character = "a"]) =>
                   lastCall.prevResult = lastCall.result

\* getShapeType was called for the letter a and then for the letter k
C15_Witness ==
    /\ lastCall.fn = "getShapeType"
    /\ lastCall.prevFn = "getShapeType"
    /\ lastCall.arg = [type |-> "letter", character |-> "k"]
    /\ lastCall.prevArg = [type |-> "letter", character |-> "a"]
    /\ lastCall.result = "circle"

\* C16 (stable letter pitch): getNoteForLetter returns for each of the 26
\* letters a frequency that is one of the notes of MUSICAL_NOTES (never
\* undefined), the same on every call and for both cases of the letter.
C16_StableLetterPitch ==
    /\ lastCall.fn = "getNoteForLetter" =>
           /\ lastCall.result \in {26163, 29366, 32963, 39200, 44000,
                                   52325, 58733, 65925, 78399, 88000,
                                   104650, 117466, 131851}
           /\ (lastCall.prevFn = lastCall.fn
                 /\ ToLowerCase(lastCall.prevArg) = ToLowerCase(lastCall.arg)) =>
                  lastCall.prevResult = lastCall.result
    /\ lastCall.fn = "getNoteForLetterFirst" =>
           /\ lastCall.result \in {26163, 29366, 32963, 39200, 44000,
                                   52325, 58733, 65925, 78399, 88000}
           /\ (lastCall.prevFn = lastCall.fn
                 /\ ToLowerCase(lastCall.prevArg) = ToLowerCase(lastCall.arg)) =>
                  lastCall.prevResult = lastCall.result

\* getNoteForLetter was called for a and then for A, and returned C4 twice
C16_Witness ==
    /\ lastCall.fn = "getNoteForLetter"
    /\ lastCall.prevFn = "getNoteForLetter"
    /\ lastCall.prevArg = "a"
    /\ lastCall.arg = "A"
    /\ lastCall.result = 26163
    /\ lastCall.prevResult = 26163

\* C14 (same-frame release): every shape and particle whose update() reports
\* expiry during a manager's update(dt) has been released to the pool in that
\* call and is not in the live collection when the call returns.  (A particle
\* that the emission at the start of the call evicted, and whose instance the
\* emission took again, is not updated by the call.)
C14_SameFrameRelease ==
    [][ /\ (now' # now /\ lastOp'.name = "ShapeManager.update") =>
               \A i \in 1..Len(shapes) :
                   ~ShapeUpdateAlive(shapes[i], now') =>
                       /\ \E k \in 1..Len(lastOp'.released) :
                              lastOp'.released[k] = shapes[i].id
                       /\ \A j \in 1..Len(shapes') : shapes'[j].id # shapes[i].id
        /\ (now' # now /\ lastOp'.name = "ParticleSystem.update") =>
               \A i \in 1..Len(particles) :
                   (/\ ~ParticleUpdate(particles[i], now' - now).isActive
                    /\ \A k \in 1..Len(lastOp'.acquired) :
                           lastOp'.acquired[k] # particles[i].id) =>
                       /\ \E k \in 1..Len(lastOp'.released) :
                              lastOp'.released[k] = particles[i].id
                       /\ \A j \in 1..Len(particles') :
                              particles'[j].id # particles[i].id ]_vars

\* an update of the particle system in which particles ran out of life (the
\* call released instances and none of the survivors is out of life)
C14_Witness ==
    /\ lastOp.name = "ParticleSystem.update"
    /\ lastOp.prev # "ParticleSystem.update"
    /\ lastOp.released # <<>>
    /\ particles # <<>>
    /\ \A i \in 1..Len(particles) : particles[i].life > 0 /\ particles[i].isActive

(***************************************************************************)
(* Properties of the game being played (SpecPlay)                          *)
(***************************************************************************)

\* C13 (never drawn past its life): on every rendered frame every shape and
\* particle drawn has an age of at most its lifespan, and every entity the
\* frame expires is past its lifespan by at most the dt of the frame.
C13_NeverDrawnPastLife ==
    /\ \A e \in lastFrame.drawn : e.age <= e.lifespan
    /\ \A e \in lastFrame.expired : e.age - e.lifespan <= lastFrame.dt

\* C17 (audio failure is non-fatal): a key press forwarded to the running,
\* unmuted game while the Web Audio backend is unavailable or its synthesis
\* throws starts no signal, takes no active-sound slot, and still creates its
\* shape.
C17_AudioFailureNonFatal ==
    [][ (/\ keyCalls' # keyCalls
         /\ lastKey'.outcome = "forwarded"
         /\ isRunning
         /\ isEnabled
         /\ (~useWebAudio \/ synthesis = "throws")) =>
            /\ signals' = signals
            /\ activeSounds' = activeSounds
            /\ shapes' # <<>>
            /\ shapes'[Len(shapes')].createdAt = now
            /\ \A i \in 1..Len(shapes) : shapes'[Len(shapes')].id # shapes[i].id ]_vars

(***************************************************************************)
(* Properties of the spawn positions (SpecSpawn)                           *)
(***************************************************************************)

\* C18 (spawn position clamping): every particle that createParticle,
\* createClickEffect or createBurst has spawned, also for a position outside
\* the canvas, starts at a position inside [0, width] x [0, height].
C18_SpawnPositionClamped ==
    \A i \in 1..Len(particles) :
        /\ particles[i].x >= 0
        /\ particles[i].x <= CanvasWidth
        /\ particles[i].y >= 0
        /\ particles[i].y <= CanvasHeight

(***************************************************************************)
(* Properties of the shape placement (SpecPlacement)                       *)
(***************************************************************************)

C20_DangerousKeysFiltered ==
    [][ (/\ keyCalls' # keyCalls
         /\ gameActive
         /\ LET ev == lastKey'.event
                blocked == {"Alt", "AltLeft", "AltRight",
                            "Control", "ControlLeft", "ControlRight",
                            "Meta", "MetaLeft", "MetaRight", "OS", "OSLeft", "OSRight",
                            "F1", "F2", "F3", "F4", "F5", "F6", "F7", "F8", "F9",
                            "F10", "F11", "F12", "ContextMenu", "PrintScreen",
                            "ScrollLock", "Pause", "Insert", "BrowserBack",
                            "BrowserForward", "BrowserRefresh", "BrowserStop",
                            "BrowserSearch", "BrowserFavorites", "BrowserHome"}
            IN  \/ ev.code \in blocked
                \/ ev.key \in blocked
                \/ ev.ctrl
                \/ ev.alt
                \/ ev.meta) =>
            /\ lastKey'.outcome # "forwarded"
            /\ \A i \in 1..Len(shapes') :
                   \E j \in 1..Len(shapes) : shapes'[i].id = shapes[j].id
            /\ particles' = particles \/ particles' = <<>>
            /\ signals' \subseteq signals
            /\ activeSounds' \subseteq activeSounds
            /\ lastPlay' = lastPlay ]_vars

\* during play, after a plain key has made a shape, Ctrl+S is delivered and
\* blocked
C20_Witness ==
    /\ focus = "keys"
    /\ gameActive
    /\ isRunning
    /\ shapes # <<>>
    /\ lastKey.outcome = "blocked"
    /\ lastKey.event.code = "KeyS"
    /\ lastKey.event.ctrl

\* C21 (parent controls): Ctrl+Shift+Escape, Ctrl+Shift+M, Ctrl+Shift+C and
\* Ctrl+Shift+P each run exactly their own action (exit, toggle sound, clear
\* screen, show controls) whether or not the game is active and are never
\* forwarded as a game key press; a keydown event without both Ctrl and Shift
\* held runs no parent-control action.
C21_ParentControls ==
    [][ keyCalls' # keyCalls =>
          LET ev == lastKey'.event
              both == ev.ctrl /\ ev.shift
              created == \E i \in 1..Len(shapes') :
                             \A j \in 1..Len(shapes) : shapes'[i].id # shapes[j].id
          IN  /\ (both /\ ev.code = "Escape") =>
                    /\ lastKey'.outcome = "parent"
                    /\ ~isRunning' /\ ~gameActive'
                    /\ shapes' = <<>> /\ particles' = <<>>
                    /\ isEnabled' = isEnabled
                    /\ lastPlay' = lastPlay
              /\ (both /\ ev.code = "KeyM") =>
                    /\ lastKey'.outcome = "parent"
                    /\ isEnabled' = ~isEnabled
                    /\ UNCHANGED <<shapes, particles, isRunning, isPaused,
                                   controlsHidden, gameActive, keyPressCount,
                                   lastKeyTime, lastPlay>>
              /\ (both /\ ev.code = "KeyC") =>
                    /\ lastKey'.outcome = "parent"
                    /\ shapes' = <<>> /\ particles' = <<>>
                    /\ UNCHANGED <<isEnabled, isRunning, isPaused, controlsHidden,
                                   gameActive, keyPressCount, lastKeyTime, lastPlay>>
              /\ (both /\ ev.code = "KeyP") =>
                    /\ lastKey'.outcome = "parent"
                    /\ controlsHidden' = ~controlsHidden
                    /\ isPaused' = controlsHidden
                    /\ UNCHANGED <<shapes, particles, isEnabled, isRunning,
                                   gameActive, keyPressCount, lastKeyTime, lastPlay>>
              /\ lastKey'.outcome = "parent" => ~created
              /\ ~both =>
                    /\ lastKey'.outcome # "parent"
                    /\ UNCHANGED <<isEnabled, isRunning, isPaused, controlsHidden,
                                   gameActive>>
                    /\ Len(shapes') >= Len(shapes)
                    /\ Len(particles') >= Len(particles) ]_vars

\* Ctrl+Shift+M has muted the sound while the game was not active, after a
\* shape had been made during play
C21_Witness ==
    /\ focus = "keys"
    /\ ~gameActive
    /\ lastKey.outcome = "parent"
    /\ lastKey.event.code = "KeyM"
    /\ ~isEnabled
    /\ keyCalls >= 2

\* C22 (Space and Enter feedback): a Space key press accepted during play
\* makes a shape of effect 'explosion', plays the 'explosion' sound and bursts
\* 15 particles; an accepted Enter key press makes a 'fireworks' shape, plays
\* the 'fireworks' sound and bursts 10 particles.
C22_SpaceEnterFeedback ==
    [][ (/\ keyCalls' # keyCalls
         /\ lastKey'.outcome = "forwarded"
         /\ isRunning
         /\ lastKey'.code \in {"Space", "Enter"}) =>
            LET fx == IF lastKey'.code = "Space" THEN "explosion" ELSE "fireworks"
                burst == IF lastKey'.code = "Space" THEN 15 ELSE 10
            IN  /\ shapes' # <<>>
                /\ shapes'[Len(shapes')].createdAt = now
                /\ shapes'[Len(shapes')].effect = fx
                /\ lastPlay'.type = fx
                /\ Len(particles') = Len(particles) + burst ]_vars

\* C23 (arrow-key feedback): an arrow key press accepted during play makes a
\* shape that bounces (update displaces its vertical position sinusoidally)
\* and plays the 'boing' sound.
C23_ArrowFeedback ==
    [][ (/\ keyCalls' # keyCalls
         /\ lastKey'.outcome = "forwarded"
         /\ isRunning
         /\ lastKey'.code \in {"ArrowUp", "ArrowDown", "ArrowLeft", "ArrowRight"}) =>
            /\ shapes' # <<>>
            /\ shapes'[Len(shapes')].createdAt = now
            /\ ShapeBounces(shapes'[Len(shapes')])
            /\ lastPlay'.type = "boing" ]_vars

(***************************************************************************)
(* Properties of the pause flag (SpecDriver)                               *)
(***************************************************************************)

\* C24 (cannot get stuck paused): in every reachable state in which the game
\* has been started (isRunning), the tab is visible and the parent-controls
\* overlay is hidden, isPaused is false.
C24_NeverStuckPaused ==
    (isRunning /\ ~docHidden /\ controlsHidden) => ~isPaused

(***************************************************************************)
(* Properties of the particles around the pointer (SpecPointer)            *)
(***************************************************************************)

\* C25 (continuous emission): while the pointer is active (a pointer event
\* reached the canvas since the previous update), and only then, update emits
\* between 1 and 3 particles per emission, consecutive emissions are at least
\* the emit interval (120 ms) apart, and every emitted particle is born inside
\* the canvas.
C25_ContinuousEmission ==
    [][ lastOp'.name = "ParticleSystem.update" =>
          LET emitted == lastOp'.acquired
              pointerActive == lastOp.name \in {"ParticleSystem.handleMouseMove",
                                                "ParticleSystem.createClickEffect"}
          IN  /\ emitted # <<>> => pointerActive
              /\ (pointerActive /\ now' - lastConstantEmitTime >= 120) => emitted # <<>>
              /\ emitted # <<>> =>
                    /\ Len(emitted) \in 1..3
                    /\ now' - lastConstantEmitTime >= 120
                    /\ lastConstantEmitTime' = now'
                    /\ \A draw \in DrawChoices :
                         LET born == ParticleSystemCreateConstantParticles(PS, now', draw)
                         IN  \A i \in 1..Len(born.particles) :
                                (\E k \in 1..Len(born.acquired) :
                                     born.acquired[k] = born.particles[i].id) =>
                                    /\ born.particles[i].x >= 0
                                    /\ born.particles[i].x <= CanvasWidth
                                    /\ born.particles[i].y >= 0
                                    /\ born.particles[i].y <= CanvasHeight ]_vars

\* C26 (off-screen release): when ParticleSystem.update(dt) returns, every live
\* particle has -100 <= x <= width + 100 and -100 <= y <= height + 100, and
\* each particle that was outside that region after its own update was released
\* to the pool exactly once in that call.
C26_OffscreenRelease ==
    [][ lastOp'.name = "ParticleSystem.update" =>
          /\ \A j \in 1..Len(particles') :
                 /\ particles'[j].x >= 0 - 100
                 /\ particles'[j].x <= CanvasWidth + 100
                 /\ particles'[j].y >= 0 - 100
                 /\ particles'[j].y <= CanvasHeight + 100
          /\ \A i \in 1..Len(particles) :
                 LET q == ParticleUpdate(particles[i], now' - now)
                     outside == \/ q.x < 0 - 100 \/ q.x > CanvasWidth + 100
                                \/ q.y < 0 - 100 \/ q.y > CanvasHeight + 100
                 IN  (/\ outside
                      /\ \A k \in 1..Len(lastOp'.acquired) :
                             lastOp'.acquired[k] # particles[i].id) =>
                         /\ Cardinality({k \in 1..Len(lastOp'.released) :
                                lastOp'.released[k] = particles[i].id}) = 1
                         /\ \A j \in 1..Len(particles') :
                                particles'[j].id # particles[i].id
                         /\ Cardinality({k \in 1..Len(particlePool'.free) :
                                particlePool'.free[k] = particles[i].id}) = 1 ]_vars

\* an update has released the particles of a press beside the canvas and kept
\* the particles around the pointer
C26_Witness ==
    /\ focus = "pointer"
    /\ lastOp.name = "ParticleSystem.update"
    /\ lastOp.prev = "ParticleSystem.createClickEffect"
    /\ Len(lastOp.released) >= 20
    /\ particles # <<>>

(***************************************************************************)
(* Properties of the phases of a shape (SpecPhases)                        *)
(***************************************************************************)

\* C27 (lifecycle order): for every effect tag a shape passes through Growing
\* (age < 30% of the lifespan), Stable, FadingOut (age > lifespan - 1500 ms)
\* and Expired in that order: the growth always ends before the fade-out
\* starts, no update returns a shape to an earlier phase, and once update has
\* returned false it returns false on every later call.
C27_LifecycleOrder ==
    [][ lastOp'.name = "ShapeManager.update" /\ now' # now =>
          \A i \in 1..Len(shapes) :
              LET s == shapes[i]
                  rank(t) == IF t - s.createdAt >= s.lifespan THEN 4
                             ELSE IF t - s.createdAt > s.lifespan - 1500 THEN 3
                             ELSE IF 10 * (t - s.createdAt) < 3 * s.lifespan THEN 1
                             ELSE 2
                  after == ShapeUpdate(s, now')
              IN  /\ ~(ShapeGrowing(s, now') /\ ShapeFadingOut(s, now'))
                  /\ ShapeGrowing(s, now') <=> rank(now') = 1
                  /\ (ShapeFadingOut(s, now') /\ ShapeUpdateAlive(s, now'))
                         <=> rank(now') = 3
                  /\ ~ShapeUpdateAlive(s, now') <=> rank(now') = 4
                  /\ rank(now') >= rank(now)
                  /\ ~ShapeUpdateAlive(s, now') =>
                         \A t \in PhaseTimes \cup {0} : ~ShapeUpdateAlive(after, t) ]_vars

\* an explosion shape made at time 0 has been updated while growing and is now
\* fading out
C27_Witness ==
    /\ focus = "phases"
    /\ lastOp.name = "ShapeManager.update"
    /\ lastOp.prev = "ShapeManager.update"
    /\ \E i \in 1..Len(shapes) :
           /\ shapes[i].effect = "explosion"
           /\ shapes[i].createdAt = 0
           /\ now = 3001

\* C28 (particle expiry only at end of life): Particle.update reports expiry
\* exactly when the dt accumulated since init is at least maxLife, never
\* earlier, for every sequence of dt values >= 0, a first update with dt = 0
\* included.
C28_ParticleExpiryAtEndOfLife ==
    [][ lastOp'.name = "ParticleSystem.update" =>
          \A i \in 1..Len(particles) :
              LET p == particles[i]
                  dt == now' - now
                  accumulated == (p.maxLife - p.life) + dt
              IN  (\A k \in 1..Len(lastOp'.acquired) : lastOp'.acquired[k] # p.id) =>
                      (~ParticleUpdate(p, dt).isActive <=> accumulated >= p.maxLife) ]_vars

\* C29 (tick-partition independence): the animation state of a particle
\* (position, life, alive or expired) after an update of dt is the same as after
\* two updates that split dt in two.
C29_TickPartitionIndependence ==
    [][ lastOp'.name = "ParticleSystem.update" /\ now' # now =>
          \A i \in 1..Len(particles) :
              LET p == particles[i]
                  dt == now' - now
                  half == dt \div 2
                  one == ParticleUpdate(p, dt)
                  two == ParticleUpdate(ParticleUpdate(p, half), dt - half)
              IN  /\ one.isActive = two.isActive
                  /\ one.life = two.life
                  /\ one.x = two.x
                  /\ one.y = two.y ]_vars

(***************************************************************************)
(* Properties of the signal durations (SpecSound)                          *)
(***************************************************************************)

\* C30 (bounded signal duration): every oscillator started by playSound, for
\* any sound type, is stopped no later than the configured duration of that
\* sound after its start, which is at most 1.5 s.
C30_BoundedSignalDuration ==
    [][ \A g \in signals' \ signals :
            LET configured == CASE g.type = "note"      -> 600
                                [] g.type = "chime"     -> 1200
                                [] g.type = "bell"      -> 800
                                [] g.type = "toy"       -> 400
                                [] g.type = "sparkle"   -> 300
                                [] g.type = "explosion" -> 1000
                                [] g.type = "fireworks" -> 1500
                                [] g.type = "bubble"    -> 500
                                [] g.type = "boing"     -> 700
                                [] g.type = "whistle"   -> 400
                                [] g.type = "laugh"     -> 1000
                                [] OTHER                -> 600
            IN  /\ g.stopAt - now <= 1500
                /\ lastPlay'.via = "call" => g.stopAt - now <= configured ]_vars

(***************************************************************************)
(* Properties of the rapid-typing effect (SpecKeys)                        *)
(***************************************************************************)

\* C31 (rainbow only on rapid typing): a key press accepted by the
\* KeyboardHandler gets the effect 'rainbow' only when it arrives less than
\* 200 ms after the previous accepted key press; the first accepted press and
\* a press after a longer gap do not get it.
C31_RainbowOnlyOnRapidTyping ==
    [][ (/\ keyCalls' # keyCalls
         /\ lastKey'.outcome = "forwarded"
         /\ lastKey'.effect = "rainbow") =>
            /\ keyPressCount > 0
            /\ now - lastKeyTime < 200 ]_vars

(***************************************************************************)
(* Properties of the bursts (SpecBurst)                                    *)
(***************************************************************************)

\* C32 (burst drops at capacity): createBurst never evicts.  It releases no
\* particle, leaves the particles that were live unchanged and in place, takes
\* from the pool exactly the instances it adds to the live collection, never
\* brings the live count above 100, and adds fewer particles than the burst
\* asks for only when the live count has reached 100.
C32_BurstDropsAtCapacity ==
    [][ (spawnCalls' # spawnCalls /\ lastOp'.name = "ParticleSystem.createBurst") =>
            LET added == Len(particles') - Len(particles)
            IN  /\ lastOp'.released = <<>>
                /\ added >= 0
                /\ SubSeq(particles', 1, Len(particles)) = particles
                /\ Len(lastOp'.acquired) = added
                /\ \A i \in 1..added :
                       particles'[Len(particles) + i].id = lastOp'.acquired[i]
                /\ Len(particlePool'.free) =
                       (IF Len(particlePool.free) >= added
                        THEN Len(particlePool.free) - added ELSE 0)
                /\ Len(particles) <= 100 => Len(particles') <= 100
                /\ added \in {10, 15} \/ Len(particles') >= 100 ]_vars

\* a burst of 15 requested with 90 particles live: 10 are added, 5 dropped
C32_Witness ==
    /\ focus = "burst"
    /\ lastOp.name = "ParticleSystem.createBurst"
    /\ Len(lastOp.acquired) = 10
    /\ lastOp.released = <<>>
    /\ Len(particles) = 100
    /\ \A i \in 1..90 : particles[i].maxLife \in {2000, 6000}
    /\ particles[100].maxLife = 1000

\* C33 (one burst per pointer press): particles are made by createClickEffect
\* only in the step of a pointer press (a mousedown or a touchstart), and that
\* step makes floor(20 * intensity) of them: 30 for the left button and for a
\* touch, 40 for the middle button, 50 for the right button.
C33_OneBurstPerPress ==
    [][ (spawnCalls' # spawnCalls /\ lastOp'.name # "ParticleSystem.createBurst") =>
            /\ lastOp'.name \in {"ParticleSystem.handleMouseClick",
                                 "ParticleSystem.handleTouchStart"}
            /\ Len(lastOp'.acquired) = (CASE lastOp'.button = 0 -> 30
                                          [] lastOp'.button = 1 -> 40
                                          [] lastOp'.button = 2 -> 50
                                          [] OTHER -> 0) ]_vars

(***************************************************************************)
(* Properties of the frame driver's pause flag and callbacks (SpecDriver)  *)
(***************************************************************************)

\* C34 (paused while parent controls are open): in every reachable state in
\* which the parent-controls overlay is visible, isPaused is true.
C34_PausedWhileControlsOpen == ~controlsHidden => isPaused

(***************************************************************************)
(* Properties of the shape of a key press (SpecKeys)                       *)
(***************************************************************************)

\* C35 (uppercase letters get stars end to end): a keydown of a letter key
\* with Shift held, whose event.key is an uppercase letter, that the
\* KeyboardHandler accepts during play makes a shape of type 'star'.
C35_UppercaseLettersGetStars ==
    [][ (/\ keyCalls' # keyCalls
         /\ lastKey'.outcome = "forwarded"
         /\ isRunning
         /\ IndexIn(LetterCodes, lastKey'.code) > 0
         /\ lastKey'.event.shift
         /\ IndexIn(UpperLetters, lastKey'.event.key) > 0) =>
            /\ shapes' # <<>>
            /\ shapes'[Len(shapes')].createdAt = now
            /\ lastKey'.shape = "star" ]_vars

\* C36 (single frame loop): at every moment at most one frame callback is
\* pending, whatever the sequence of startGame, exitGame and destroy calls,
\* and no frame runs update twice (two active ticks never carry the same
\* frame time).
C36_SingleFrameLoop ==
    /\ [](Cardinality(pending) <= 1)
    /\ [][ updateCalls' # updateCalls =>
              ~(lastTick.kind = "active" /\ lastTick.at = now') ]_vars

\* startGame called again while the game is running, or after destroy, and no
\* frame run yet: the second request is the only one pending
C36_Witness ==
    /\ focus = "driver"
    /\ isRunning
    /\ lastTick = NoTick
    /\ animationId = 2
    /\ pending = {2}

\* C37 (bounded first step): the dt handed to update by the first active tick
\* after startGame, on the first start and on a start that follows an
\* exitGame, is at most one frame interval.
C37_BoundedFirstStep ==
    [][ (updateCalls' # updateCalls /\ ~tickedSinceStart) =>
            lastTick'.dt <= FrameInterval ]_vars

(***************************************************************************)
(* Properties of the shapes across a pause (SpecPause)                     *)
(***************************************************************************)

\* C38 (shapes do not age while paused): a shape that was live at the last
\* active tick before the driver paused is still live after the first active
\* tick that follows the resume, however long the pause was.
C38_NoAgeingWhilePaused ==
    [][ (updateCalls' # updateCalls /\ pausedSinceTick /\ tickedSinceStart) =>
            \A i \in 1..Len(shapes) :
                shapes[i].createdAt <= lastFrameTime =>
                    \E j \in 1..Len(shapes') :
                        /\ shapes'[j].id = shapes[i].id
                        /\ shapes'[j].createdAt = shapes[i].createdAt ]_vars

(***************************************************************************)
(* Properties of the active-sound slots (SpecSlots)                        *)
(***************************************************************************)

\* C39 (active-sound slots are released): every slot a started sound adds to
\* activeSounds is eventually removed, also when the synthesis throws after
\* the slot was taken, and once the play requests have stopped activeSounds
\* becomes empty and stays empty.
C39_SlotsReleased ==
    /\ \A id \in 1..(3 * MaxConcurrentSounds) :
           (id \in activeSounds) ~> (id \notin activeSounds)
    /\ <>[](activeSounds = {})
    /\ [](\A id \in activeSounds : id \in 1..(3 * MaxConcurrentSounds))

\* the slot of a sound whose synthesis threw has been released by its timer
C39_Witness ==
    /\ focus = "slots"
    /\ synthesis = "throws"
    /\ lastPlay.outcome = "failed"
    /\ now > PlayWindow
    /\ activeSounds = {}
    /\ timers = {}

(***************************************************************************)
(* Properties of the allocation (SpecManagers)                             *)
(***************************************************************************)

\* C40 (bounded allocation): the instances in existence, those in the
\* free-list of the pool plus those in the live collection, and the instances
\* the pool has constructed, never number more than 16 for the shapes and
\* more than 100 for the particles.
C40_BoundedAllocation ==
    /\ Len(shapePool.free) + Len(shapes) <= 16
    /\ shapePool.instances <= 16
    /\ Len(particlePool.free) + Len(particles) <= 100
    /\ particlePool.instances <= 100

\* a createShape on a full collection with an empty free-list: the sixteenth
\* instance was constructed, and the evicted one is in the free-list
C40_Witness ==
    /\ focus = "shapes"
    /\ lastOp.name = "ShapeManager.createShape"
    /\ lastOp.acquired = <<16>>
    /\ Len(shapes) = 15
    /\ Len(shapePool.free) = 1
    /\ shapePool.instances = 16

====
